---- MODULE Spec2Model ----
(***************************************************************************)
(* Automata MCP server: API-key authentication, dependency installation,  *)
(* plugin discovery, route synthesis, request handling, the plugins'       *)
(* capabilities and the extension configuration manager                    *)
(* (src/app/server.py, src/app/routers.py, src/app/exceptions.py,          *)
(* src/app/base_tool.py, src/app/src/echo/echo_tool.py,                    *)
(* src/app/src/douyin_cookie/douyin_cookie_tool.py,                        *)
(* src/app/extension_config/config_manager.py).                            *)
(***************************************************************************)
EXTENDS Integers, Sequences, FiniteSets, TLC

(***************************************************************************)
(* Bounds of the model.                                                    *)
(***************************************************************************)
\* longest key body (before padding) that is enumerated
MaxKeyLen == 9
\* most whitespace characters put on either side of a key
MaxPad == 1

(***************************************************************************)
(* Strings are sequences of characters.  Optional values (None or a value) *)
(* are sequences of length at most one.                                    *)
(***************************************************************************)
None == << >>

Some(v) == << v >>

Space == " "

\* a character outside ASCII (an X-API-Key header is decoded as latin-1)
NonAscii == "u00e9"

Rep(c, n) == [i \in 1..n |-> c]

Bodies ==
    {Rep("k", n) : n \in 0..MaxKeyLen}
        \cup {Rep("k", n) \o << c >> : n \in 0..(MaxKeyLen - 1), c \in {"x", NonAscii}}
        \cup {<< c >> \o Rep("k", n) : n \in 0..(MaxKeyLen - 1), c \in {"x", NonAscii}}

\* the strings a secret or a presented key is drawn from
KeyStrings ==
    {Rep(Space, l) \o b \o Rep(Space, r) : l \in 0..MaxPad, r \in 0..MaxPad, b \in Bodies}

RECURSIVE LStrip(_)
LStrip(s) == IF s # << >> /\ Head(s) = Space THEN LStrip(Tail(s)) ELSE s

RECURSIVE RStrip(_)
RStrip(s) ==
    IF s # << >> /\ s[Len(s)] = Space THEN RStrip(SubSeq(s, 1, Len(s) - 1)) ELSE s

\* str.strip()
Strip(s) == RStrip(LStrip(s))

IsAscii(s) == \A i \in 1..Len(s) : s[i] # NonAscii

\* the least length of a presented key that is compared at all
MinKeyLen == 8

Returned(b) == [raised |-> "", value |-> b]

Raised(e) == [raised |-> e, value |-> FALSE]

\* hmac.compare_digest on two str: TypeError unless both are ASCII
CompareDigest(a, b) ==
    IF IsAscii(a) /\ IsAscii(b) THEN Returned(a = b) ELSE Raised("TypeError")

\* mutant: only an unset secret (not an empty one) disables authentication
AuthenticateUnsetOnly(secret, key) ==
    IF secret = None THEN Returned(TRUE)
    ELSE IF key = << >> THEN Returned(FALSE)
    ELSE IF Len(Strip(key)) < MinKeyLen THEN Returned(FALSE)
    ELSE CompareDigest(Strip(key), Strip(secret[1]))

\* AutomataMCPServer.authenticate: secret is self.api_key (None when unset)
Authenticate(secret, key) ==
    IF secret = None \/ secret = Some(<< >>) THEN Returned(TRUE)
    ELSE IF key = << >> THEN Returned(FALSE)
    ELSE IF Len(Strip(key)) < MinKeyLen THEN Returned(FALSE)
    ELSE CompareDigest(Strip(key), Strip(secret[1]))


(***************************************************************************)
(* The plugin roots on disk.  A root holds directory entries in iteration  *)
(* order; an entry that is a plugin package carries what its files do when *)
(* the server installs, imports, instantiates and asks it for routes.      *)
(***************************************************************************)
\* most entries of the built-in plugin root
MaxSrcEntries == 2
\* most entries of the extension root
MaxExtEntries == 1
\* most route configurations one get_route_config returns
MaxRoutes == 2

\* the plugin directory names of the model
Names == {"echo", "douyin_cookie"}

\* self.tools_dir (TOOLS_DIR, "src" by default) and self.extension_dir
ToolsDir == "src"

ExtensionDir == "AutoUp-MCP-Extension"

\* an entry that is no directory, a directory without __init__.py, a package
EntryKinds == {"file", "dir", "package"}

\* config.yaml and the installer: no packages listed, installed, `uv pip
\* install` exits non-zero, it exceeds the timeout, config.yaml is no YAML, a
\* listed package is no non-empty string
PipOutcomes == {"no_packages", "ok", "nonzero", "timeout", "bad_yaml", "bad_name"}

\* what loading the package meets first
LoadOutcomes ==
    {"ok", "no_file", "import_error", "no_class", "not_subclass", "ctor_raises"}

Endpoints == {"/x", "/y"}

\* one route configuration: a dict (or something else), its 'endpoint' (None
\* when the key is absent), its 'params_class' ("None" when absent, a pydantic
\* model, or a class without model_fields), 'use_form', 'tool_name'
RouteConfig(isdict, endpoint, params_class, use_form, tool_name) ==
    [isdict |-> isdict, endpoint |-> endpoint, params_class |-> params_class,
     use_form |-> use_form, tool_name |-> tool_name]

JsonRoute(path) == RouteConfig(TRUE, Some(path), "Model", FALSE, None)

FormRoute(path, tool) == RouteConfig(TRUE, Some(path), "Model", TRUE, Some(tool))

NotADict == RouteConfig(FALSE, None, "None", FALSE, None)

\* every route configuration of the model; a class without model_fields is
\* only enumerated for a form route, where the code reads model_fields
AllRouteConfigs ==
    {NotADict}
        \cup {RouteConfig(TRUE, e, p, f, t) :
                e \in {None, Some("")} \cup {Some(x) : x \in Endpoints},
                p \in {"None", "Model"}, f \in BOOLEAN, t \in {None, Some("t")}}
        \cup {RouteConfig(TRUE, e, "NoModelFields", TRUE, None) :
                e \in {None, Some("/x")}}

SeqsUpTo(S, n) == UNION {[1..k -> S] : k \in 0..n}

\* what get_route_config does: returns a list, a single dict, something that
\* is neither, or raises
ReturnsList(cfgs) == [kind |-> "list", value |-> cfgs]

\* (the single dict is kept as the one-element list the code wraps it into)
ReturnsDict(cfg) == [kind |-> "dict", value |-> << cfg >>]

ReturnsOther == [kind |-> "other", value |-> << >>]

RaisesInRouteConfig == [kind |-> "raises", value |-> << >>]

Entry(name, kind, pip, load, decl) ==
    [name |-> name, kind |-> kind, pip |-> pip, load |-> load, decl |-> decl]

\* an entry the loader never looks into
PlainEntry(name, kind) == Entry(name, kind, "no_packages", "ok", ReturnsList(<< >>))

\* the ordered listings of a root: distinct names, at most n entries, each
\* entry one of the templates under a name of its own
RECURSIVE Listings(_, _, _)
Listings(names, n, templates) ==
    IF n = 0 THEN {<< >>}
    ELSE {<< >>} \cup
         UNION {{<< [t EXCEPT !.name = nm] >> \o rest :
                    t \in templates, rest \in Listings(names \ {nm}, n - 1, templates)}
                : nm \in names}

\* the instance a package yields: one tool class per (root, directory)
Instance(root, name) == [root |-> root, name |-> name]

(***************************************************************************)
(* Errors and the log (exceptions.py).                                     *)
(***************************************************************************)
Exc(code, msg) == [code |-> code, msg |-> msg]

\* the exception classes that derive from AutomataError
AutomataErrors ==
    {"ToolLoadError", "ToolExecutionError", "DependencyInstallError",
     "ConfigurationError", "ValidationError", "NetworkError", "APIError"}

LogRecord(level, code, msg, tool, dir) ==
    [level |-> level, code |-> code, msg |-> msg, tool |-> tool, dir |-> dir]

\* handle_exception: the record it logs (level ERROR: no error code of the
\* model ends in "Warning"); tool and dir are the context it is given
HandleException(exc, tool, dir) ==
    LogRecord("ERROR",
              IF exc.code \in AutomataErrors THEN exc.code ELSE "UnexpectedError",
              exc.msg, tool, dir)

(***************************************************************************)
(* Dependency installation (server.py, _install_tool_dependencies).        *)
(***************************************************************************)
\* mutant: a timeout of the installer is not turned into DependencyInstallError
InstallToolDependenciesRawTimeout(entry) ==
    IF entry.pip = "bad_yaml"
    THEN Some(Exc("ConfigurationError", "Invalid YAML in config file"))
    ELSE IF entry.pip = "no_packages" THEN None
    ELSE IF entry.pip = "nonzero"
    THEN Some(Exc("DependencyInstallError", "Failed to install packages"))
    ELSE IF entry.pip = "timeout"
    THEN Some(Exc("TimeoutExpired", "Command timed out"))
    ELSE IF entry.pip = "bad_name"
    THEN Some(Exc("DependencyInstallError", "Unexpected error installing packages"))
    ELSE None

\* _install_tool_dependencies with _load_tool_config and _run_pip_install:
\* None when it returns, the exception when it raises
InstallToolDependencies(entry) ==
    IF entry.pip = "bad_yaml"
    THEN Some(Exc("ConfigurationError", "Invalid YAML in config file"))
    ELSE IF entry.pip = "no_packages" THEN None
    ELSE IF entry.pip = "nonzero"
    THEN Some(Exc("DependencyInstallError", "Failed to install packages"))
    ELSE IF entry.pip = "timeout"
    THEN Some(Exc("DependencyInstallError", "Package installation timed out"))
    ELSE IF entry.pip = "bad_name"
    THEN Some(Exc("DependencyInstallError", "Unexpected error installing packages"))
    ELSE None

(***************************************************************************)
(* Route synthesis (server.py, register_tool_routes).                      *)
(***************************************************************************)
Route(path, inst, tool_name, use_form) ==
    [path |-> path, inst |-> inst, tool_name |-> tool_name, use_form |-> use_form]

\* mutant: only the endpoint is required
RouteConfigCompleteEndpointOnly(cfg) ==
    cfg.endpoint # None /\ cfg.endpoint # Some("")

\* the negation of `not endpoint or not params_class`
RouteConfigComplete(cfg) ==
    /\ cfg.endpoint # None /\ cfg.endpoint # Some("")
    /\ cfg.params_class # "None"

\* route_config.get("tool_name", modname)
ToolNameDefault(cfg, modname) ==
    IF cfg.tool_name = None THEN modname ELSE cfg.tool_name[1]

\* the loop over route_configs from position i on; stops where
\* create_tool_endpoint raises (p_class.model_fields of a class without it)
RECURSIVE RegisterEach(_, _, _, _, _, _)
RegisterEach(cfgs, i, inst, modname, routes, log) ==
    IF i > Len(cfgs) THEN [routes |-> routes, log |-> log, raised |-> None]
    ELSE LET cfg == cfgs[i] IN
         IF ~cfg.isdict
         THEN RegisterEach(cfgs, i + 1, inst, modname, routes,
                  Append(log, LogRecord("ERROR", "", "Invalid route config", modname, "")))
         ELSE IF ~RouteConfigComplete(cfg)
         THEN RegisterEach(cfgs, i + 1, inst, modname, routes,
                  Append(log, LogRecord("ERROR", "",
                      "Route config missing 'endpoint' or 'params_class'", modname, "")))
         ELSE IF cfg.use_form /\ cfg.params_class = "NoModelFields"
         THEN [routes |-> routes, log |-> log,
               raised |-> Some(Exc("AttributeError", "model_fields"))]
         ELSE RegisterEach(cfgs, i + 1, inst, modname,
                  Append(routes, Route(cfg.endpoint[1], inst,
                                       ToolNameDefault(cfg, modname), cfg.use_form)),
                  log)

\* register_tool_routes(tool_instance, modname)
RegisterToolRoutes(inst, modname, decl, routes, log) ==
    IF decl.kind = "raises"
    THEN [routes |-> routes, log |-> log,
          raised |-> Some(Exc("RuntimeError", "get_route_config"))]
    ELSE IF decl.kind = "other"
    THEN [routes |-> routes,
          log |-> Append(log, LogRecord("ERROR", "",
                     "get_route_config must return a dict or list of dicts", modname, "")),
          raised |-> None]
    ELSE RegisterEach(decl.value, 1, inst, modname, routes, log)

(***************************************************************************)
(* Plugin loading (server.py, _load_and_register_tool).                    *)
(***************************************************************************)
\* self.tools, a dict in insertion order: a sequence of [name, inst]
DictHas(d, k) == \E i \in 1..Len(d) : d[i].name = k

DictGet(d, k) == d[CHOOSE i \in 1..Len(d) : d[i].name = k].inst

\* d[k] = v: a present key keeps its position
DictSet(d, k, v) ==
    IF DictHas(d, k)
    THEN [i \in 1..Len(d) |-> IF d[i].name = k THEN [name |-> k, inst |-> v] ELSE d[i]]
    ELSE Append(d, [name |-> k, inst |-> v])

LoadResult(tools, routes, log, raised) ==
    [tools |-> tools, routes |-> routes, log |-> log, raised |-> raised]

\* the ToolLoadError the except clauses of _load_and_register_tool raise
WrapLoadError(exc) ==
    IF exc.code = "ImportError"
    THEN Exc("ToolLoadError", "Failed to import tool module")
    ELSE IF exc.code = "AttributeError"
    THEN Exc("ToolLoadError", "Failed to load tool class from module")
    ELSE Exc("ToolLoadError", "Unexpected error loading tool")

\* mutant: the instance is put in the registry before the class is checked
\* and instantiated
LoadAndRegisterToolEarly(entry, root, tools, routes, log) ==
    IF entry.load = "no_file"
    THEN LoadResult(tools, routes, log, Some(Exc("ToolLoadError", "Tool file not found")))
    ELSE IF entry.load = "import_error"
    THEN LoadResult(tools, routes, log, Some(WrapLoadError(Exc("ImportError", "import"))))
    ELSE IF entry.load \in {"no_class", "not_subclass"}
    THEN LoadResult(DictSet(tools, entry.name, Instance(root, entry.name)), routes, log,
                    Some(WrapLoadError(Exc("ToolLoadError", "class"))))
    ELSE IF entry.load = "ctor_raises"
    THEN LoadResult(DictSet(tools, entry.name, Instance(root, entry.name)), routes, log,
                    Some(WrapLoadError(Exc("RuntimeError", "constructor"))))
    ELSE LET inst == Instance(root, entry.name)
             reg == RegisterToolRoutes(inst, entry.name, entry.decl, routes, log)
         IN  IF reg.raised # None
             THEN LoadResult(DictSet(tools, entry.name, inst), reg.routes, reg.log,
                             Some(WrapLoadError(reg.raised[1])))
             ELSE LoadResult(DictSet(tools, entry.name, inst), reg.routes,
                      Append(reg.log, LogRecord("INFO", "",
                          "discovered and registered successfully", entry.name, "")),
                      None)

\* _load_and_register_tool(tool_dir, modname, tools_dir): the registry, the
\* routes and the log it leaves, and the exception it raises (None: returns)
LoadAndRegisterTool(entry, root, tools, routes, log) ==
    IF entry.load = "no_file"
    THEN LoadResult(tools, routes, log, Some(Exc("ToolLoadError", "Tool file not found")))
    ELSE IF entry.load = "import_error"
    THEN LoadResult(tools, routes, log, Some(WrapLoadError(Exc("ImportError", "import"))))
    ELSE IF entry.load \in {"no_class", "not_subclass"}
    THEN LoadResult(tools, routes, log, Some(WrapLoadError(Exc("ToolLoadError", "class"))))
    ELSE IF entry.load = "ctor_raises"
    THEN LoadResult(tools, routes, log,
                    Some(WrapLoadError(Exc("RuntimeError", "constructor"))))
    ELSE LET inst == Instance(root, entry.name)
             reg == RegisterToolRoutes(inst, entry.name, entry.decl, routes, log)
         IN  IF reg.raised # None
             THEN LoadResult(DictSet(tools, entry.name, inst), reg.routes, reg.log,
                             Some(WrapLoadError(reg.raised[1])))
             ELSE LoadResult(DictSet(tools, entry.name, inst), reg.routes,
                      Append(reg.log, LogRecord("INFO", "",
                          "discovered and registered successfully", entry.name, "")),
                      None)

(***************************************************************************)
(* The loops over the plugin roots (server.py).                            *)
(***************************************************************************)
\* mutant: every directory counts as a package
IsPluginPackageAnyDirectory(entry) == entry.kind # "file"

\* item.is_dir() and (item / "__init__.py").exists()
IsPluginPackage(entry) == entry.kind = "package"

\* _validate_tools_directory: None, or the ConfigurationError it raises
ValidateToolsDirectory(dir) ==
    IF dir.exists THEN None
    ELSE Some(Exc("ConfigurationError", "Tools directory does not exist"))

\* _install_dependencies_for_directory: the loop from entry i on
RECURSIVE InstallDependenciesForDirectory(_, _, _, _)
InstallDependenciesForDirectory(entries, i, root, log) ==
    IF i > Len(entries) THEN log
    ELSE IF ~IsPluginPackage(entries[i])
    THEN InstallDependenciesForDirectory(entries, i + 1, root, log)
    ELSE LET raised == InstallToolDependencies(entries[i]) IN
         InstallDependenciesForDirectory(entries, i + 1, root,
             IF raised = None THEN log
             ELSE Append(log, HandleException(raised[1], entries[i].name, root)))

\* install_dependencies_for_enabled_tools: the loop over self.tools_dirs with
\* _install_dependencies_for_directory_safe
RECURSIVE InstallDependenciesForEnabledTools(_, _, _, _)
InstallDependenciesForEnabledTools(disk, dirs, r, log) ==
    IF r > Len(dirs) THEN log
    ELSE LET invalid == ValidateToolsDirectory(disk[dirs[r]]) IN
         InstallDependenciesForEnabledTools(disk, dirs, r + 1,
             IF invalid # None
             THEN Append(log, HandleException(invalid[1], "", dirs[r]))
             ELSE InstallDependenciesForDirectory(disk[dirs[r]].entries, 1, dirs[r], log))

Loaded(tools, routes, log) == [tools |-> tools, routes |-> routes, log |-> log]

\* mutant: the loop has no try/except, so the first plugin that fails ends it
\* (the exception is caught by _discover_tools_in_directory_safe)
RECURSIVE DiscoverToolsInDirectoryUncaught(_, _, _, _)
DiscoverToolsInDirectoryUncaught(entries, i, root, st) ==
    IF i > Len(entries) THEN st
    ELSE IF ~IsPluginPackage(entries[i])
    THEN DiscoverToolsInDirectoryUncaught(entries, i + 1, root, st)
    ELSE LET res == LoadAndRegisterTool(entries[i], root, st.tools, st.routes, st.log) IN
         IF res.raised = None
         THEN DiscoverToolsInDirectoryUncaught(entries, i + 1, root,
                  Loaded(res.tools, res.routes, res.log))
         ELSE Loaded(res.tools, res.routes,
                     Append(res.log, HandleException(res.raised[1], "", root)))

\* _discover_tools_in_directory: the loop from entry i on
RECURSIVE DiscoverToolsInDirectory(_, _, _, _)
DiscoverToolsInDirectory(entries, i, root, st) ==
    IF i > Len(entries) THEN st
    ELSE IF ~IsPluginPackage(entries[i])
    THEN DiscoverToolsInDirectory(entries, i + 1, root, st)
    ELSE LET res == LoadAndRegisterTool(entries[i], root, st.tools, st.routes, st.log) IN
         DiscoverToolsInDirectory(entries, i + 1, root,
             Loaded(res.tools, res.routes,
                    IF res.raised = None THEN res.log
                    ELSE Append(res.log,
                                HandleException(res.raised[1], entries[i].name, root))))

\* discover_tools: the loop over self.tools_dirs with
\* _discover_tools_in_directory_safe
RECURSIVE DiscoverTools(_, _, _, _)
DiscoverTools(disk, dirs, r, st) ==
    IF r > Len(dirs) THEN st
    ELSE LET invalid == ValidateToolsDirectory(disk[dirs[r]]) IN
         DiscoverTools(disk, dirs, r + 1,
             IF invalid # None
             THEN Loaded(st.tools, st.routes,
                         Append(st.log, HandleException(invalid[1], "", dirs[r])))
             ELSE DiscoverToolsInDirectory(disk[dirs[r]].entries, 1, dirs[r], st))

(***************************************************************************)
(* The configuration manager (extension_config/config_manager.py).         *)
(***************************************************************************)
\* most keys a plugin's config_requirements declares
MaxReqKeys == 2

\* most keys the plugin's section of config.json holds at first
MaxStoredKeys == 1

\* a Python value that JSON can carry, with the JSON text json.dump writes
\* for it (a sequence of characters); lists and mappings are not looked into
PyVal(type, text) == [type |-> type, text |-> text]

Quote == "\""

PyStr(chars) == PyVal("str", << Quote >> \o chars \o << Quote >>)

PyInt(digits) == PyVal("int", digits)

PyFloat(digits) == PyVal("float", digits)

PyBool(b) == PyVal("bool", IF b THEN << "t", "r", "u", "e" >>
                           ELSE << "f", "a", "l", "s", "e" >>)

PyNone == PyVal("NoneType", << "n", "u", "l", "l" >>)

PyList(items) == PyVal("list", << "[" >> \o items \o << "]" >>)

PyDict(items) == PyVal("dict", << "{" >> \o items \o << "}" >>)

\* bool(v)
Truthy(v) ==
    IF v.type = "str" THEN v # PyStr(<< >>)
    ELSE IF v.type = "int" THEN v # PyInt(<< "0" >>)
    ELSE IF v.type = "float" THEN v # PyFloat(<< "0", ".", "0" >>)
    ELSE IF v.type = "bool" THEN v = PyBool(TRUE)
    ELSE IF v.type = "list" THEN v # PyList(<< >>)
    ELSE IF v.type = "dict" THEN v # PyDict(<< >>)
    ELSE FALSE

\* json.dump of a value
JsonDumps(v) == v.text

\* json.loads of the text of a value: the type is read off the text
JsonLoads(text) ==
    PyVal(IF Head(text) = Quote THEN "str"
          ELSE IF Head(text) = "[" THEN "list"
          ELSE IF Head(text) = "{" THEN "dict"
          ELSE IF Head(text) \in {"t", "f"} THEN "bool"
          ELSE IF Head(text) = "n" THEN "NoneType"
          ELSE IF \E i \in 1..Len(text) : text[i] = "." THEN "float"
          ELSE "int",
          text)

\* json.dump of a mapping key: a key that is no str (int, float, bool, None)
\* is written as the string of its JSON text
JsonDumpsKey(k) == IF k.type = "str" THEN k.text ELSE << Quote >> \o k.text \o << Quote >>

\* a dict in insertion order: a sequence of [key, value]
Item(key, value) == [key |-> key, value |-> value]

PyHas(d, k) == \E i \in 1..Len(d) : d[i].key = k

PyGet(d, k) == d[CHOOSE i \in 1..Len(d) : d[i].key = k].value

\* d[k] = v: a present key keeps its position
PySet(d, k, v) ==
    IF PyHas(d, k)
    THEN [i \in 1..Len(d) |-> IF d[i].key = k THEN Item(k, v) ELSE d[i]]
    ELSE Append(d, Item(k, v))

\* what config.json holds under an extension's name: a mapping, or a value
\* that is none (null)
Section(items) == [isdict |-> TRUE, items |-> items]

NullSection == [isdict |-> FALSE, items |-> << >>]

\* the text of a mapping of values, and the mapping json.loads builds of it:
\* of keys written twice the last value stands
RECURSIVE DumpItems(_, _)
DumpItems(d, i) ==
    IF i > Len(d) THEN << >>
    ELSE << Item(JsonDumpsKey(d[i].key), JsonDumps(d[i].value)) >> \o DumpItems(d, i + 1)

RECURSIVE LoadItems(_, _, _)
LoadItems(t, i, acc) ==
    IF i > Len(t) THEN acc
    ELSE LoadItems(t, i + 1, PySet(acc, JsonLoads(t[i].key), JsonLoads(t[i].value)))

DumpSection(s) == IF s.isdict THEN Section(DumpItems(s.items, 1)) ELSE NullSection

LoadSection(s) == IF s.isdict THEN Section(LoadItems(s.items, 1, << >>)) ELSE NullSection

RECURSIVE DumpDoc(_, _)
DumpDoc(d, i) ==
    IF i > Len(d) THEN << >>
    ELSE << Item(JsonDumpsKey(d[i].key), DumpSection(d[i].value)) >> \o DumpDoc(d, i + 1)

RECURSIVE LoadDoc(_, _, _)
LoadDoc(t, i, acc) ==
    IF i > Len(t) THEN acc
    ELSE LoadDoc(t, i + 1, PySet(acc, JsonLoads(t[i].key), LoadSection(t[i].value)))

\* config.json on disk: missing, empty, not JSON, or the text of a document
ConfigFile(kind, doc) == [kind |-> kind, doc |-> doc]

\* _save_config(config)
SaveConfig(config) == ConfigFile("json", DumpDoc(config, 1))

\* _load_config(): {} for a file that is missing, empty or not JSON
LoadConfig(file) == IF file.kind = "json" THEN LoadDoc(file.doc, 1, << >>) ELSE << >>

\* _ensure_config_file()
EnsureConfigFile(file) == IF file.kind = "missing" THEN SaveConfig(<< >>) ELSE file

\* an extension's config.yaml: missing, or its config_requirements
ExtensionYaml(exists, config_requirements) ==
    [exists |-> exists, config_requirements |-> config_requirements]

\* _load_extension_yaml(name).get("config_requirements", {})
ConfigRequirements(yaml) == IF yaml.exists THEN yaml.config_requirements ELSE << >>

\* a requirement: a plain value, or a descriptor (a mapping) with an
\* optional 'default', 'type' and 'required'; `literal` is the requirement
\* as the value it is
Literal(v) ==
    [isdict |-> FALSE, default |-> None, type |-> None, required |-> None, literal |-> v]

Descriptor(default, type, required, literal) ==
    [isdict |-> TRUE, default |-> default, type |-> type, required |-> required,
     literal |-> literal]

\* str.lower() of the type names of the model
Lower(name) ==
    IF name = "String" THEN "string" ELSE IF name = "INT" THEN "int" ELSE name

\* type_defaults.get(name, "")
TypeDefaults(name) ==
    IF name \in {"string", "str"} THEN PyStr(<< >>)
    ELSE IF name = "int" THEN PyInt(<< "0" >>)
    ELSE IF name = "float" THEN PyFloat(<< "0", ".", "0" >>)
    ELSE IF name = "bool" THEN PyBool(FALSE)
    ELSE IF name = "list" THEN PyList(<< >>)
    ELSE IF name = "dict" THEN PyDict(<< >>)
    ELSE PyStr(<< >>)

\* the type name of a descriptor that is no str has no lower()
NotAString == "<int>"

Merged(items, was_modified, raised) ==
    [items |-> items, was_modified |-> was_modified, raised |-> raised]

\* the loop of _merge_config_requirements over the requirements from the
\* i-th on
RECURSIVE MergeEach(_, _, _, _)
MergeEach(reqs, i, items, was_modified) ==
    IF i > Len(reqs) THEN Merged(items, was_modified, "")
    ELSE LET key == reqs[i].key
             value == reqs[i].value
         IN  IF PyHas(items, key) THEN MergeEach(reqs, i + 1, items, was_modified)
             ELSE IF value.isdict /\ value.default # None
             THEN MergeEach(reqs, i + 1, PySet(items, key, value.default[1]), TRUE)
             ELSE IF value.isdict /\ value.type # None
             THEN IF value.type[1] = NotAString
                  THEN Merged(items, was_modified, "AttributeError")
                  ELSE MergeEach(reqs, i + 1,
                                 PySet(items, key, TypeDefaults(Lower(value.type[1]))), TRUE)
             ELSE MergeEach(reqs, i + 1, PySet(items, key, value.literal), TRUE)

MergeResult(config, was_modified, raised) ==
    [config |-> config, was_modified |-> was_modified, raised |-> raised]

\* _merge_config_requirements(central_config, extension_name, requirements),
\* called with requirements that are not empty
MergeConfigRequirements(central_config, extension_name, config_requirements) ==
    LET central == IF PyHas(central_config, extension_name) THEN central_config
                   ELSE PySet(central_config, extension_name, Section(<< >>))
        section == PyGet(central, extension_name)
    IN  IF ~section.isdict THEN MergeResult(central, FALSE, "TypeError")
        ELSE LET m == MergeEach(config_requirements, 1, section.items, FALSE) IN
             MergeResult(PySet(central, extension_name, Section(m.items)),
                         m.was_modified, m.raised)

\* what a call of the manager leaves: the exception raised ("": none), the
\* file, whether _save_config ran, and the values returned
ConfigResult(raised, file, saved, section, value, valid, missing) ==
    [raised |-> raised, file |-> file, saved |-> saved, section |-> section,
     value |-> value, valid |-> valid, missing |-> missing]

\* mutant: the merged configuration is returned and never saved
GetExtensionConfigUnsaved(file, yaml, extension_name, auto_create) ==
    LET reqs == ConfigRequirements(yaml)
        central == LoadConfig(file)
        absent == Section(<< >>)
    IN  IF auto_create /\ reqs # << >>
        THEN LET m == MergeConfigRequirements(central, extension_name, reqs) IN
             IF m.raised # ""
             THEN ConfigResult(m.raised, file, FALSE, absent, PyNone, FALSE, << >>)
             ELSE ConfigResult("", file, FALSE,
                               PyGet(m.config, extension_name), PyNone, FALSE, << >>)
        ELSE ConfigResult("", file, FALSE,
                          IF PyHas(central, extension_name)
                          THEN PyGet(central, extension_name) ELSE absent,
                          PyNone, FALSE, << >>)

\* mutant: only the extension's own section is saved
GetExtensionConfigOwnSection(file, yaml, extension_name, auto_create) ==
    LET reqs == ConfigRequirements(yaml)
        central == LoadConfig(file)
        absent == Section(<< >>)
    IN  IF auto_create /\ reqs # << >>
        THEN LET m == MergeConfigRequirements(central, extension_name, reqs) IN
             IF m.raised # ""
             THEN ConfigResult(m.raised, file, FALSE, absent, PyNone, FALSE, << >>)
             ELSE ConfigResult("", IF m.was_modified
                                   THEN SaveConfig(<< Item(extension_name,
                                                           PyGet(m.config, extension_name)) >>)
                                   ELSE file,
                               m.was_modified,
                               PyGet(m.config, extension_name), PyNone, FALSE, << >>)
        ELSE ConfigResult("", file, FALSE,
                          IF PyHas(central, extension_name)
                          THEN PyGet(central, extension_name) ELSE absent,
                          PyNone, FALSE, << >>)

\* get_extension_config(extension_name, auto_create)
GetExtensionConfig(file, yaml, extension_name, auto_create) ==
    LET reqs == ConfigRequirements(yaml)
        central == LoadConfig(file)
        absent == Section(<< >>)
    IN  IF auto_create /\ reqs # << >>
        THEN LET m == MergeConfigRequirements(central, extension_name, reqs) IN
             IF m.raised # ""
             THEN ConfigResult(m.raised, file, FALSE, absent, PyNone, FALSE, << >>)
             ELSE ConfigResult("", IF m.was_modified THEN SaveConfig(m.config) ELSE file,
                               m.was_modified,
                               PyGet(m.config, extension_name), PyNone, FALSE, << >>)
        ELSE ConfigResult("", file, FALSE,
                          IF PyHas(central, extension_name)
                          THEN PyGet(central, extension_name) ELSE absent,
                          PyNone, FALSE, << >>)

\* mutant: the caller's default stands for a value that is falsy
GetConfigValueOrDefault(file, yaml, extension_name, key, default) ==
    LET g == GetExtensionConfig(file, yaml, extension_name, TRUE) IN
    IF g.raised # "" THEN g
    ELSE IF ~g.section.isdict THEN [g EXCEPT !.raised = "AttributeError"]
    ELSE [g EXCEPT !.value = IF PyHas(g.section.items, key)
                                  /\ Truthy(PyGet(g.section.items, key))
                             THEN PyGet(g.section.items, key) ELSE default]

\* get_config_value(extension_name, key, default)
GetConfigValue(file, yaml, extension_name, key, default) ==
    LET g == GetExtensionConfig(file, yaml, extension_name, TRUE) IN
    IF g.raised # "" THEN g
    ELSE IF ~g.section.isdict THEN [g EXCEPT !.raised = "AttributeError"]
    ELSE [g EXCEPT !.value = IF PyHas(g.section.items, key)
                             THEN PyGet(g.section.items, key) ELSE default]

\* value is None or value == "" or value == [] or value == {}, for the value
\* extension_config.get(key)
MissingOrEmpty(items, key) ==
    \/ ~PyHas(items, key)
    \/ PyGet(items, key) \in {PyNone, PyStr(<< >>), PyList(<< >>), PyDict(<< >>)}

\* is_required: True, or requirement.get("required", True) of a descriptor
IsRequired(requirement) ==
    IF requirement.isdict /\ requirement.required # None
    THEN Truthy(requirement.required[1])
    ELSE TRUE

\* the loop of validate_extension_config over the requirements from the
\* i-th on
RECURSIVE MissingKeys(_, _, _)
MissingKeys(reqs, i, items) ==
    IF i > Len(reqs) THEN << >>
    ELSE (IF IsRequired(reqs[i].value) /\ MissingOrEmpty(items, reqs[i].key)
          THEN << reqs[i].key >> ELSE << >>)
         \o MissingKeys(reqs, i + 1, items)

\* mutant: the configuration is read with auto_create left at its default
ValidateExtensionConfigAutoCreates(file, yaml, extension_name) ==
    LET reqs == ConfigRequirements(yaml) IN
    IF reqs = << >>
    THEN ConfigResult("", file, FALSE, Section(<< >>), PyNone, TRUE, << >>)
    ELSE LET g == GetExtensionConfig(file, yaml, extension_name, TRUE) IN
         IF g.raised # "" THEN g
         ELSE IF ~g.section.isdict THEN [g EXCEPT !.raised = "AttributeError"]
         ELSE LET missing == MissingKeys(reqs, 1, g.section.items) IN
              [g EXCEPT !.valid = (missing = << >>), !.missing = missing]

\* validate_extension_config(extension_name)
ValidateExtensionConfig(file, yaml, extension_name) ==
    LET reqs == ConfigRequirements(yaml) IN
    IF reqs = << >>
    THEN ConfigResult("", file, FALSE, Section(<< >>), PyNone, TRUE, << >>)
    ELSE LET g == GetExtensionConfig(file, yaml, extension_name, FALSE) IN
         IF g.raised # "" THEN g
         ELSE IF ~g.section.isdict THEN [g EXCEPT !.raised = "AttributeError"]
         ELSE LET missing == MissingKeys(reqs, 1, g.section.items) IN
              [g EXCEPT !.valid = (missing = << >>), !.missing = missing]

(***************************************************************************)
(* State.                                                                  *)
(***************************************************************************)
VARIABLES
    api_key,        \* self.api_key: None or the configured secret
    debug,          \* whether DEBUG is "true" in the environment
    x_api_key,      \* the key authenticate was called with (None: no call)
    auth_result,    \* what that call did (None: no call)
    fs,             \* the plugin roots on disk
    tools_dirs,     \* self.tools_dirs
    pc,             \* where __init__ stands, then "serving"
    tools,          \* self.tools, the registry
    routes,         \* the plugin routes of self.app, in registration order
    log,            \* the records logged (errors, and each registration)
    request,        \* the request being served (None: none)
    response,       \* its response
    calls,          \* the call_tool and list_tools calls made for it
    config_json,    \* config/config.json on disk
    extension_yaml, \* the extension's config.yaml on disk
    config_call,    \* the call of the configuration manager made last (None: none)
    config_threads, \* the calls of get_extension_config under way, one a thread
    browser_op,     \* the browser operation handed to a worker thread (None: none)
    op_step,        \* where that operation stands
    browser,        \* the browser it launched: none, open, closed, stopped
    temp_files,     \* its local temp_files (None: unbound)
    tmp_dir,        \* the temporary image files on disk
    op_outcome      \* how the operation ended (None: it has not)

vars ==
    << api_key, debug, x_api_key, auth_result, fs, tools_dirs, pc, tools, routes, log,
       request, response, calls, config_json, extension_yaml, config_call,
       config_threads, browser_op, op_step, browser, temp_files, tmp_dir, op_outcome >>

envVars == << api_key, debug >>

authVars == << x_api_key, auth_result >>

serverVars == << fs, tools_dirs, pc, tools, routes, log >>

requestVars == << request, response, calls >>

configVars == << config_json, extension_yaml, config_call, config_threads >>

browserVars == << browser_op, op_step, browser, temp_files, tmp_dir, op_outcome >>

\* no browser operation under way
NoBrowser ==
    /\ browser_op = None
    /\ op_step = "idle"
    /\ browser = "none"
    /\ temp_files = None
    /\ tmp_dir = {}
    /\ op_outcome = None

\* a server whose plugins use no configuration manager
NoConfig ==
    /\ config_json = EnsureConfigFile(ConfigFile("missing", << >>))
    /\ extension_yaml = ExtensionYaml(FALSE, << >>)
    /\ config_call = None
    /\ config_threads = << >>

Dir(exists, entries) == [exists |-> exists, entries |-> entries]

\* the key configured wherever one is, and a key that is not it
Secret == Rep("k", MinKeyLen)

WrongKey == Rep("k", MinKeyLen - 1) \o << "x" >>

\* the states of a plugin root on disk
Dirs(maxEntries, templates) ==
    {Dir(FALSE, << >>)} \cup {Dir(TRUE, l) : l \in Listings(Names, maxEntries, templates)}

\* __init__ up to the point where self.tools_dirs is set: the registry is
\* empty, the key is read, the extension root is listed only when it exists
InitServer(keys, debugs, srcTemplates, extTemplates) ==
    /\ api_key \in keys
    /\ debug \in debugs
    /\ x_api_key = None
    /\ auth_result = None
    /\ \E src \in Dirs(MaxSrcEntries, srcTemplates),
          ext \in Dirs(MaxExtEntries, extTemplates) :
          /\ fs = (ToolsDir :> src) @@ (ExtensionDir :> ext)
          /\ tools_dirs = IF ext.exists THEN << ToolsDir, ExtensionDir >> ELSE << ToolsDir >>
    /\ pc = "install"
    /\ tools = << >>
    /\ routes = << >>
    /\ log = << >>
    /\ request = None
    /\ response = None
    /\ calls = << >>
    /\ NoBrowser
    /\ NoConfig

(***************************************************************************)
(* Startup (server.py, AutomataMCPServer.__init__).                        *)
(***************************************************************************)
\* mutant: a failed installation is not caught, and ends __init__
InstallDependenciesUncaught ==
    /\ pc = "install"
    /\ log' = InstallDependenciesForEnabledTools(fs, tools_dirs, 1, log)
    /\ pc' = IF log' = log THEN "discover" ELSE "failed"
    /\ UNCHANGED << envVars, browserVars, configVars, authVars, fs, tools_dirs, tools, routes >>
    /\ UNCHANGED requestVars

\* self.install_dependencies_for_enabled_tools()
InstallDependencies ==
    /\ pc = "install"
    /\ log' = InstallDependenciesForEnabledTools(fs, tools_dirs, 1, log)
    /\ pc' = "discover"
    /\ UNCHANGED << envVars, browserVars, configVars, authVars, fs, tools_dirs, tools, routes >>
    /\ UNCHANGED requestVars

\* self.discover_tools()
Discover ==
    /\ pc = "discover"
    /\ LET st == DiscoverTools(fs, tools_dirs, 1, Loaded(tools, routes, log)) IN
          /\ tools' = st.tools
          /\ routes' = st.routes
          /\ log' = st.log
    /\ pc' = "mount"
    /\ UNCHANGED << envVars, browserVars, configVars, authVars, fs, tools_dirs >>
    /\ UNCHANGED requestVars

\* FastApiMCP, include_router(create_router(...)), _validate_security_config,
\* and create_app's handlers: the server serves
Mount ==
    /\ pc = "mount"
    /\ pc' = "serving"
    /\ UNCHANGED << envVars, browserVars, configVars, authVars, fs, tools_dirs, tools, routes, log >>
    /\ UNCHANGED requestVars

(***************************************************************************)
(* Requests (server.py: verify_api_key, the synthesized handlers and       *)
(* create_app's exception handlers; routers.py: create_router).            *)
(***************************************************************************)
Request(method, path, header, body_ok) ==
    [method |-> method, path |-> path, header |-> header, body_ok |-> body_ok]

Response(status, body) == [status |-> status, body |-> body]

\* the X-API-Key headers a request carries: none, the secret, another key,
\* and a key with a character outside ASCII
Headers == {None, Some(Secret), Some(WrongKey), Some(Rep(NonAscii, MinKeyLen))}

\* x_api_key or ""
KeyOf(header) == IF header = None THEN << >> ELSE header[1]

\* mutant: a rejected key raises nothing
VerifyApiKeyLenient(secret, header) ==
    LET res == Authenticate(secret, KeyOf(header)) IN
    IF res.raised # "" THEN Some(Exc(res.raised, "compare_digest")) ELSE None

\* the verify_api_key dependency (server.py and routers.py alike): None when
\* the request may pass, else the exception that ends it
VerifyApiKey(secret, header) ==
    LET res == Authenticate(secret, KeyOf(header)) IN
    IF res.raised # "" THEN Some(Exc(res.raised, "compare_digest"))
    ELSE IF ~res.value THEN Some(Exc("HTTP401", "Invalid API key"))
    ELSE None

\* what a request that ends in an exception is answered: FastAPI's answer to
\* an HTTPException, automata_error_handler, general_error_handler
ErrorResponse(exc, req, dbg) ==
    IF exc.code = "HTTP401" THEN Response(401, [detail |-> exc.msg])
    ELSE IF exc.code = "HTTP422" THEN Response(422, [detail |-> exc.msg])
    ELSE IF exc.code \in AutomataErrors
    THEN Response(400, [error |-> [error_code |-> exc.code, message |-> exc.msg,
                                   details |-> << >>]])
    ELSE IF dbg
    THEN Response(500, [error |-> [error_code |-> "InternalServerError",
                                   message |-> "An internal server error occurred",
                                   timestamp |-> None,
                                   details |-> [exception_type |-> exc.code,
                                                url |-> req.path,
                                                method |-> req.method]]])
    ELSE Response(500, [error |-> [error_code |-> "InternalServerError",
                                   message |-> "An internal server error occurred",
                                   timestamp |-> None]])

\* what a capability other than echo does with a request: returns its
\* content, raises a plain exception, raises an AutomataError
CallOutcomes == {"returns", "ValueError", "ToolExecutionError"}

\* a call of a plugin method: the arguments call_tool was given (None for
\* list_tools) and the exception it raised (None: it returned)
Call(op, inst, name, raised) ==
    [op |-> op, inst |-> inst, name |-> name, arguments |-> None, raised |-> raised]

TextItem(text) == [type |-> "text", text |-> text]

\* the messages a request carries
Messages == {<< >>, << "h", "i" >>}

\* the names of the Tool objects list_tools returns, by plugin directory
ToolNames(modname) ==
    IF modname = "douyin" THEN << "douyin_publish" >>
    ELSE IF modname = "douyin_cookie" THEN << "get_douyin_cookies", "load_douyin_cookies", "validate_douyin_cookies" >>
    ELSE IF modname = "echo" THEN << "echo" >>
    ELSE IF modname = "fetch" THEN << "fetch" >>
    ELSE IF modname = "image_upload" THEN << "image_upload" >>
    ELSE IF modname = "long_text_content" THEN << "create_long_text_content" >>
    ELSE IF modname = "polish" THEN << "polish" >>
    ELSE IF modname = "video_edit" THEN << "edit_video" >>
    ELSE IF modname = "video_generate" THEN << "video_generate" >>
    ELSE IF modname = "video_upload" THEN << "video_upload" >>
    ELSE IF modname = "xiaohongshu" THEN << "xiaohongshu_publish" >>
    ELSE IF modname = "xiaohongshu_cookie" THEN << "get_xiaohongshu_cookies", "load_xiaohongshu_cookies", "validate_xiaohongshu_cookies" >>
    ELSE IF modname = "zhihu_get" THEN << "zhihu_get" >>
    ELSE << >>

\* one entry of GET /tools; the description stands for the text the plugin
\* of that root gives
ToolInfo(inst, name) == [name |-> name, description |-> inst.root]

\* await tool_instance.list_tools(), as the entries GET /tools makes of it
ListTools(inst) ==
    [j \in 1..Len(ToolNames(inst.name)) |-> ToolInfo(inst, ToolNames(inst.name)[j])]

HasTool(inst, name) == \E j \in 1..Len(ToolNames(inst.name)) : ToolNames(inst.name)[j] = name

\* f"Echo: {params.message}"
EchoText(message) == << "E", "c", "h", "o", ":", " " >> \o message

CallResult(raised, content) == [raised |-> raised, content |-> content]

\* tool_instance.call_tool(name, arguments): a name the plugin does not know
\* raises ValueError before anything else is done; echo returns its text;
\* any other capability ends as `outcome` says
CallTool(inst, name, arguments, outcome) ==
    IF ~HasTool(inst, name)
    THEN CallResult(Some(Exc("ValueError", "Unknown tool")), << >>)
    ELSE IF name = "echo"
    THEN CallResult(None, << TextItem(EchoText(arguments.message)) >>)
    ELSE IF outcome = "returns"
    THEN CallResult(None, << TextItem(<< "r", "e", "s", "u", "l", "t" >>) >>)
    ELSE CallResult(Some(Exc(outcome, "call_tool failed")), << >>)

\* the route the router picks for a path: the first one registered with it
RouteFor(path) == routes[CHOOSE i \in 1..Len(routes) :
                            /\ routes[i].path = path
                            /\ \A j \in 1..(i - 1) : routes[j].path # path]

\* tool_endpoint of register_tool_routes, JSON-bodied or form-bodied, once
\* the dependency let the request pass: the response and the calls made
ToolEndpoint(route, req, arguments, outcome, dbg) ==
    IF ~req.body_ok
    THEN [response |-> ErrorResponse(Exc("HTTP422", "validation error"), req, dbg),
          calls |-> << >>]
    ELSE LET res == CallTool(route.inst, route.tool_name, arguments, outcome)
             call == [Call("call_tool", route.inst, route.tool_name, res.raised)
                         EXCEPT !.arguments = Some(arguments)]
         IN  IF res.raised = None
             THEN [response |-> Response(200, [content |-> res.content]),
                   calls |-> << call >>]
             ELSE [response |-> ErrorResponse(res.raised[1], req, dbg),
                   calls |-> << call >>]

\* POST <endpoint of a plugin route>
PostTool ==
    /\ pc = "serving"
    /\ request = None
    /\ \E path \in {routes[i].path : i \in 1..Len(routes)}, header \in Headers,
          body_ok \in BOOLEAN, message \in Messages, outcome \in CallOutcomes :
          LET req == Request("POST", path, header, body_ok)
              denied == VerifyApiKey(api_key, header)
              served == ToolEndpoint(RouteFor(path), req, [message |-> message],
                                     outcome, debug)
          IN  /\ request' = Some(req)
              /\ x_api_key' = Some(KeyOf(header))
              /\ auth_result' = Some(Authenticate(api_key, KeyOf(header)))
              /\ response' = IF denied # None THEN Some(ErrorResponse(denied[1], req, debug))
                             ELSE Some(served.response)
              /\ calls' = IF denied # None THEN << >> ELSE served.calls
    /\ UNCHANGED << envVars, browserVars, configVars, serverVars >>

\* mutant: the try is around the loop, so the first plugin that raises ends
\* the listing
RECURSIVE ListRegisteredToolsUncaught(_, _, _, _)
ListRegisteredToolsUncaught(registry, i, failing, acc) ==
    IF i > Len(registry) THEN acc
    ELSE LET inst == registry[i].inst IN
         IF inst \in failing
         THEN [tools |-> acc.tools,
               calls |-> Append(acc.calls,
                            Call("list_tools", inst, "", Some(Exc("RuntimeError", ""))))]
         ELSE ListRegisteredToolsUncaught(registry, i + 1, failing,
                  [tools |-> acc.tools \o ListTools(inst),
                   calls |-> Append(acc.calls, Call("list_tools", inst, "", None))])

\* list_registered_tools once the dependency let the request pass; the
\* plugins in `failing` raise in list_tools and are skipped
RECURSIVE ListRegisteredTools(_, _, _, _)
ListRegisteredTools(registry, i, failing, acc) ==
    IF i > Len(registry) THEN acc
    ELSE LET inst == registry[i].inst IN
         ListRegisteredTools(registry, i + 1, failing,
             IF inst \in failing
             THEN [tools |-> acc.tools,
                   calls |-> Append(acc.calls,
                                Call("list_tools", inst, "", Some(Exc("RuntimeError", ""))))]
             ELSE [tools |-> acc.tools \o ListTools(inst),
                   calls |-> Append(acc.calls, Call("list_tools", inst, "", None))])

\* GET /tools
GetTools ==
    /\ pc = "serving"
    /\ request = None
    /\ \E header \in Headers, failing \in SUBSET {tools[i].inst : i \in 1..Len(tools)} :
          LET req == Request("GET", "/tools", header, TRUE)
              denied == VerifyApiKey(api_key, header)
              listed == ListRegisteredTools(tools, 1, failing,
                                            [tools |-> << >>, calls |-> << >>])
          IN  /\ request' = Some(req)
              /\ x_api_key' = Some(KeyOf(header))
              /\ auth_result' = Some(Authenticate(api_key, KeyOf(header)))
              /\ response' = IF denied # None THEN Some(ErrorResponse(denied[1], req, debug))
                             ELSE Some(Response(200, [tools |-> listed.tools]))
              /\ calls' = IF denied # None THEN << >> ELSE listed.calls
    /\ UNCHANGED << envVars, browserVars, configVars, serverVars >>

\* GET /health
GetHealth ==
    /\ pc = "serving"
    /\ request = None
    /\ request' = Some(Request("GET", "/health", None, TRUE))
    /\ response' = Some(Response(200, [status |-> "healthy"]))
    /\ calls' = << >>
    /\ x_api_key' = None
    /\ auth_result' = None
    /\ UNCHANGED << envVars, browserVars, configVars, serverVars >>

\* GET /
GetRoot ==
    /\ pc = "serving"
    /\ request = None
    /\ request' = Some(Request("GET", "/", None, TRUE))
    /\ response' = Some(Response(200, [message |-> "Automata MCP Server is running",
                                       version |-> "1.0.0",
                                       tools_count |-> Len(tools)]))
    /\ calls' = << >>
    /\ x_api_key' = None
    /\ auth_result' = None
    /\ UNCHANGED << envVars, browserVars, configVars, serverVars >>

\* the response is sent and the server waits for the next request
SendResponse ==
    /\ pc = "serving"
    /\ request # None
    /\ request' = None
    /\ response' = None
    /\ calls' = << >>
    /\ x_api_key' = None
    /\ auth_result' = None
    /\ UNCHANGED << envVars, browserVars, configVars, serverVars >>

(***************************************************************************)
(* The echo plugin as the repository has it (base_tool.py, echo_tool.py).  *)
(***************************************************************************)
\* the abstract methods of BaseMCPTool
AbstractMethods == {"list_tools", "call_tool", "get_route_config"}

\* the methods EchoTool defines
EchoToolMethods == {"__init__", "list_tools", "call_tool"}

\* tool_class(): a class that leaves an abstract method undefined cannot be
\* instantiated (TypeError)
Instantiation(methods) ==
    IF AbstractMethods \subseteq methods THEN "ok" ELSE "ctor_raises"

\* src/echo: no config.yaml, class EchoTool, no get_route_config of its own
EchoPackage ==
    Entry("echo", "package", "no_packages", Instantiation(EchoToolMethods), ReturnsOther)

(***************************************************************************)
(* The plugins of src/app/src: the directory, the class its module         *)
(* defines, the routes it declares, and the class name the loader looks    *)
(* for.                                                                    *)
(***************************************************************************)
BuiltinPlugins ==
    << "douyin", "douyin_cookie", "echo", "fetch", "image_upload", "long_text_content",
       "polish", "video_edit", "video_generate", "video_upload",
       "xiaohongshu", "xiaohongshu_cookie", "zhihu_get" >>

\* the directory name, character by character
ModnameChars(modname) ==
    IF modname = "douyin" THEN << "d", "o", "u", "y", "i", "n" >>
    ELSE IF modname = "douyin_cookie" THEN << "d", "o", "u", "y", "i", "n", "_", "c", "o", "o", "k", "i", "e" >>
    ELSE IF modname = "echo" THEN << "e", "c", "h", "o" >>
    ELSE IF modname = "fetch" THEN << "f", "e", "t", "c", "h" >>
    ELSE IF modname = "image_upload" THEN << "i", "m", "a", "g", "e", "_", "u", "p", "l", "o", "a", "d" >>
    ELSE IF modname = "long_text_content" THEN << "l", "o", "n", "g", "_", "t", "e", "x", "t", "_", "c", "o", "n", "t", "e", "n", "t" >>
    ELSE IF modname = "polish" THEN << "p", "o", "l", "i", "s", "h" >>
    ELSE IF modname = "video_edit" THEN << "v", "i", "d", "e", "o", "_", "e", "d", "i", "t" >>
    ELSE IF modname = "video_generate" THEN << "v", "i", "d", "e", "o", "_", "g", "e", "n", "e", "r", "a", "t", "e" >>
    ELSE IF modname = "video_upload" THEN << "v", "i", "d", "e", "o", "_", "u", "p", "l", "o", "a", "d" >>
    ELSE IF modname = "xiaohongshu" THEN << "x", "i", "a", "o", "h", "o", "n", "g", "s", "h", "u" >>
    ELSE IF modname = "xiaohongshu_cookie" THEN << "x", "i", "a", "o", "h", "o", "n", "g", "s", "h", "u", "_", "c", "o", "o", "k", "i", "e" >>
    ELSE IF modname = "zhihu_get" THEN << "z", "h", "i", "h", "u", "_", "g", "e", "t" >>
    ELSE << >>

\* the name of the class <modname>_tool.py defines
ClassDefined(modname) ==
    IF modname = "douyin" THEN << "D", "o", "u", "y", "i", "n", "T", "o", "o", "l" >>
    ELSE IF modname = "douyin_cookie" THEN << "D", "o", "u", "y", "i", "n", "C", "o", "o", "k", "i", "e", "T", "o", "o", "l" >>
    ELSE IF modname = "echo" THEN << "E", "c", "h", "o", "T", "o", "o", "l" >>
    ELSE IF modname = "fetch" THEN << "F", "e", "t", "c", "h", "T", "o", "o", "l" >>
    ELSE IF modname = "image_upload" THEN << "I", "m", "a", "g", "e", "U", "p", "l", "o", "a", "d", "T", "o", "o", "l" >>
    ELSE IF modname = "long_text_content" THEN << "L", "o", "n", "g", "T", "e", "x", "t", "C", "o", "n", "t", "e", "n", "t", "T", "o", "o", "l" >>
    ELSE IF modname = "polish" THEN << "P", "o", "l", "i", "s", "h", "T", "o", "o", "l" >>
    ELSE IF modname = "video_edit" THEN << "V", "i", "d", "e", "o", "E", "d", "i", "t", "T", "o", "o", "l" >>
    ELSE IF modname = "video_generate" THEN << "V", "i", "d", "e", "o", "G", "e", "n", "e", "r", "a", "t", "e", "T", "o", "o", "l" >>
    ELSE IF modname = "video_upload" THEN << "V", "i", "d", "e", "o", "U", "p", "l", "o", "a", "d", "T", "o", "o", "l" >>
    ELSE IF modname = "xiaohongshu" THEN << "X", "i", "a", "o", "h", "o", "n", "g", "s", "h", "u", "T", "o", "o", "l" >>
    ELSE IF modname = "xiaohongshu_cookie" THEN << "X", "i", "a", "o", "h", "o", "n", "g", "s", "h", "u", "C", "o", "o", "k", "i", "e", "T", "o", "o", "l" >>
    ELSE IF modname = "zhihu_get" THEN << "Z", "h", "i", "h", "u", "_", "g", "e", "t", "T", "o", "o", "l" >>
    ELSE << >>

\* what the plugin's get_route_config returns
BuiltinRouteConfig(modname) ==
    IF modname = "douyin" THEN ReturnsList(<< RouteConfig(TRUE, Some("/tools/douyin"), "Model", FALSE, None) >>)
    ELSE IF modname = "douyin_cookie" THEN ReturnsList(<< RouteConfig(TRUE, Some("/cookies/douyin/get"), "Model", FALSE, Some("get_douyin_cookies")),
                        RouteConfig(TRUE, Some("/cookies/douyin/load"), "Model", FALSE, Some("load_douyin_cookies")),
                        RouteConfig(TRUE, Some("/cookies/douyin/validate"), "Model", FALSE, Some("validate_douyin_cookies")) >>)
    ELSE IF modname = "echo" THEN ReturnsOther
    ELSE IF modname = "fetch" THEN ReturnsDict(RouteConfig(TRUE, Some("/tools/fetch"), "Model", FALSE, None))
    ELSE IF modname = "image_upload" THEN ReturnsList(<< RouteConfig(TRUE, Some("/tools/image_upload"), "Model", TRUE, None) >>)
    ELSE IF modname = "long_text_content" THEN ReturnsDict(RouteConfig(TRUE, Some("/tools/long-text-content"), "Model", TRUE, Some("create_long_text_content")))
    ELSE IF modname = "polish" THEN ReturnsDict(RouteConfig(TRUE, Some("/tools/polish"), "Model", FALSE, None))
    ELSE IF modname = "video_edit" THEN ReturnsList(<< RouteConfig(TRUE, Some("/video/edit"), "Model", FALSE, Some("edit_video")) >>)
    ELSE IF modname = "video_generate" THEN ReturnsList(<< RouteConfig(TRUE, Some("/tools/video_generate"), "Model", TRUE, None) >>)
    ELSE IF modname = "video_upload" THEN ReturnsList(<< RouteConfig(TRUE, Some("/tools/video_upload"), "Model", TRUE, None) >>)
    ELSE IF modname = "xiaohongshu" THEN ReturnsList(<< RouteConfig(TRUE, Some("/tools/xiaohongshu"), "Model", FALSE, Some("xiaohongshu_publish")) >>)
    ELSE IF modname = "xiaohongshu_cookie" THEN ReturnsList(<< RouteConfig(TRUE, Some("/cookies/xiaohongshu/get"), "Model", FALSE, Some("get_xiaohongshu_cookies")),
                        RouteConfig(TRUE, Some("/cookies/xiaohongshu/load"), "Model", FALSE, Some("load_xiaohongshu_cookies")),
                        RouteConfig(TRUE, Some("/cookies/xiaohongshu/validate"), "Model", FALSE, Some("validate_xiaohongshu_cookies")) >>)
    ELSE IF modname = "zhihu_get" THEN ReturnsDict(RouteConfig(TRUE, Some("/tools/zhihu_get"), "Model", FALSE, None))
    ELSE ReturnsOther

\* the methods the plugin's class defines
BuiltinMethods(modname) ==
    IF modname = "echo" THEN EchoToolMethods
    ELSE EchoToolMethods \cup {"get_route_config"}

LowerLetters ==
    << "a", "b", "c", "d", "e", "f", "g", "h", "i", "j", "k", "l", "m", "n", "o", "p", "q", "r", "s", "t", "u", "v", "w", "x", "y", "z" >>

UpperLetters ==
    << "A", "B", "C", "D", "E", "F", "G", "H", "I", "J", "K", "L", "M", "N", "O", "P", "Q", "R", "S", "T", "U", "V", "W", "X", "Y", "Z" >>

\* c.upper() and c.lower() of one character
UpperOf(c) ==
    IF \E i \in 1..Len(LowerLetters) : LowerLetters[i] = c
    THEN UpperLetters[CHOOSE i \in 1..Len(LowerLetters) : LowerLetters[i] = c]
    ELSE c

LowerOf(c) ==
    IF \E i \in 1..Len(UpperLetters) : UpperLetters[i] = c
    THEN LowerLetters[CHOOSE i \in 1..Len(UpperLetters) : UpperLetters[i] = c]
    ELSE c

\* word.capitalize(): the first character in upper case, the rest in lower
Capitalize(word) ==
    [i \in 1..Len(word) |-> IF i = 1 THEN UpperOf(word[i]) ELSE LowerOf(word[i])]

\* modname.split("_") from position i on, `word` being the segment under way
RECURSIVE Split(_, _, _)
Split(chars, i, word) ==
    IF i > Len(chars) THEN << word >>
    ELSE IF chars[i] = "_" THEN << word >> \o Split(chars, i + 1, << >>)
    ELSE Split(chars, i + 1, Append(word, chars[i]))

RECURSIVE JoinCapitalized(_, _)
JoinCapitalized(words, i) ==
    IF i > Len(words) THEN << >>
    ELSE Capitalize(words[i]) \o JoinCapitalized(words, i + 1)

\* "".join(word.capitalize() for word in modname.split("_")) + "Tool"
ToolClassName(chars) ==
    JoinCapitalized(Split(chars, 1, << >>), 1) \o << "T", "o", "o", "l" >>

\* the package of a plugin as the loader meets it: no config.yaml; the class
\* is looked up under the derived name, then instantiated
BuiltinPackage(modname) ==
    Entry(modname, "package", "no_packages",
          IF ToolClassName(ModnameChars(modname)) # ClassDefined(modname) THEN "no_class"
          ELSE Instantiation(BuiltinMethods(modname)),
          BuiltinRouteConfig(modname))

(***************************************************************************)
(* The plugin templates of the specifications.                             *)
(***************************************************************************)
NominalRoutes == ReturnsList(<< JsonRoute("/x") >>)

\* the route declarations of the startup specification: one JSON route, one
\* form route given as a single dict, an incomplete configuration before a
\* complete one, a route before one whose handler cannot be built, no list,
\* an exception, no route
StartupDecls ==
    {NominalRoutes,
     ReturnsDict(FormRoute("/y", "t")),
     ReturnsList(<< RouteConfig(TRUE, None, "Model", FALSE, None), JsonRoute("/y") >>),
     ReturnsList(<< JsonRoute("/y"),
                    RouteConfig(TRUE, Some("/x"), "NoModelFields", TRUE, None) >>),
     ReturnsOther,
     RaisesInRouteConfig,
     ReturnsList(<< >>)}

\* entries that are no package; packages that differ from a working one in
\* what installation meets, in what loading meets, or in their routes; and a
\* package whose installation times out and whose import then fails
StartupTemplates ==
    {PlainEntry("", k) : k \in {"file", "dir"}}
        \cup {Entry("", "package", p, "ok", NominalRoutes) : p \in PipOutcomes}
        \cup {Entry("", "package", "ok", l, NominalRoutes) : l \in LoadOutcomes}
        \cup {Entry("", "package", "ok", "ok", d) : d \in StartupDecls}
        \cup {Entry("", "package", "timeout", "import_error", NominalRoutes)}
        \cup {Entry("", "dir", "timeout", "import_error", NominalRoutes),
              Entry("", "dir", "ok", "ok", NominalRoutes)}

\* the entries of the extension root: no package, a working package, one
\* whose constructor raises, one whose installation times out
ExtensionTemplates ==
    {PlainEntry("", "dir"),
     Entry("", "package", "ok", "ok", NominalRoutes),
     Entry("", "package", "ok", "ctor_raises", NominalRoutes),
     Entry("", "package", "timeout", "ok", NominalRoutes)}

Init == InitServer({Some(Secret)}, {FALSE}, StartupTemplates, ExtensionTemplates)

Next == InstallDependencies \/ Discover \/ Mount

Spec == Init /\ [][Next]_vars

(***************************************************************************)
(* Serving: startup over a few plugins, then requests.                     *)
(***************************************************************************)
ServeTemplates ==
    {PlainEntry("", "dir"),
     Entry("", "package", "ok", "ok", NominalRoutes),
     Entry("", "package", "ok", "ok", ReturnsDict(FormRoute("/y", "get_douyin_cookies"))),
     Entry("", "package", "ok", "ctor_raises", NominalRoutes),
     [EchoPackage EXCEPT !.name = ""]}

InitServe == InitServer({None, Some(Secret)}, BOOLEAN, ServeTemplates, ServeTemplates)

NextServe ==
    \/ InstallDependencies \/ Discover \/ Mount
    \/ PostTool \/ GetTools \/ GetHealth \/ GetRoot \/ SendResponse

SpecServe == InitServe /\ [][NextServe]_vars

(***************************************************************************)
(* The server over plugins of src/app/src, then requests.                  *)
(***************************************************************************)
MaxBuiltinEntries == 2

\* the listings of a src/app/src that holds at most n of its plugins, from
\* the i-th on, in the order of their names
RECURSIVE BuiltinListings(_, _)
BuiltinListings(i, n) ==
    IF i > Len(BuiltinPlugins) \/ n = 0 THEN {<< >>}
    ELSE BuiltinListings(i + 1, n)
            \cup {<< BuiltinPackage(BuiltinPlugins[i]) >> \o rest :
                     rest \in BuiltinListings(i + 1, n - 1)}

InitBuiltin ==
    /\ api_key \in {None, Some(Secret)}
    /\ debug \in BOOLEAN
    /\ x_api_key = None
    /\ auth_result = None
    /\ \E entries \in BuiltinListings(1, MaxBuiltinEntries) :
          fs = (ToolsDir :> Dir(TRUE, entries)) @@ (ExtensionDir :> Dir(FALSE, << >>))
    /\ tools_dirs = << ToolsDir >>
    /\ pc = "install"
    /\ tools = << >>
    /\ routes = << >>
    /\ log = << >>
    /\ request = None
    /\ response = None
    /\ calls = << >>
    /\ NoBrowser
    /\ NoConfig

SpecBuiltin == InitBuiltin /\ [][NextServe]_vars

(***************************************************************************)
(* Route synthesis alone: one plugin, every list of route configurations.  *)
(***************************************************************************)
RouteDecls ==
    {ReturnsList(cfgs) : cfgs \in SeqsUpTo(AllRouteConfigs, MaxRoutes)}
        \cup {ReturnsDict(cfg) : cfg \in AllRouteConfigs \ {NotADict}}
        \cup {ReturnsOther, RaisesInRouteConfig}

InitRoutes ==
    /\ api_key = Some(Secret)
    /\ debug = FALSE
    /\ x_api_key = None
    /\ auth_result = None
    /\ \E decl \in RouteDecls :
          fs = (ToolsDir :> Dir(TRUE, << Entry("echo", "package", "ok", "ok", decl) >>))
                  @@ (ExtensionDir :> Dir(FALSE, << >>))
    /\ tools_dirs = << ToolsDir >>
    /\ pc = "install"
    /\ tools = << >>
    /\ routes = << >>
    /\ log = << >>
    /\ request = None
    /\ response = None
    /\ calls = << >>
    /\ NoBrowser
    /\ NoConfig

NextRoutes == InstallDependencies \/ Discover \/ Mount

SpecRoutes == InitRoutes /\ [][NextRoutes]_vars

(***************************************************************************)
(* Authentication alone: every secret, every presented key.                *)
(***************************************************************************)
InitAuth ==
    /\ api_key \in {None} \cup {Some(s) : s \in KeyStrings}
    /\ debug = FALSE
    /\ x_api_key = None
    /\ auth_result = None
    /\ fs = (ToolsDir :> Dir(TRUE, << >>)) @@ (ExtensionDir :> Dir(FALSE, << >>))
    /\ tools_dirs = << ToolsDir >>
    /\ pc = "serving"
    /\ tools = << >>
    /\ routes = << >>
    /\ log = << >>
    /\ request = None
    /\ response = None
    /\ calls = << >>
    /\ NoBrowser
    /\ NoConfig

\* self.authenticate(key)
AuthenticateCall ==
    /\ auth_result = None
    /\ \E key \in KeyStrings :
          /\ x_api_key' = Some(key)
          /\ auth_result' = Some(Authenticate(api_key, key))
    /\ UNCHANGED << envVars, browserVars, configVars, serverVars, requestVars >>

\* the caller has the result; the next call may come
AuthenticateReturn ==
    /\ auth_result # None
    /\ request = None
    /\ x_api_key' = None
    /\ auth_result' = None
    /\ UNCHANGED << envVars, browserVars, configVars, serverVars, requestVars >>

NextAuth == AuthenticateCall \/ AuthenticateReturn

SpecAuth == InitAuth /\ [][NextAuth]_vars

(***************************************************************************)
(* The configuration manager alone: every config.yaml and config.json of   *)
(* the bounds, then calls of its three operations for one extension.       *)
(***************************************************************************)
ExtensionName == PyStr(<< "e", "x", "t" >>)

\* another extension, and the entry an earlier call for it left in config.json
OtherName == PyStr(<< "o", "t", "h" >>)

OtherEntry ==
    Item(JsonDumpsKey(OtherName),
         Section(<< Item(JsonDumpsKey(PyStr(<< "k" >>)), JsonDumps(PyStr(<< "v" >>))) >>))

\* the keys a config.yaml declares, in the order it declares them: a str key
\* and a key YAML reads as an int
ReqKeys == << PyStr(<< "a" >>), PyInt(<< "1" >>) >>

\* the requirements declared for a key: a plain value; descriptors with a
\* default, with each type of the table, with a type in capitals, with a
\* type that is no string, with required false, true, 0; the empty mapping
ReqTemplates ==
    {Literal(PyStr(<< "v" >>)),
     Descriptor(Some(PyStr(<< "v" >>)), Some("string"), None, PyDict(<< "d", "t" >>)),
     Descriptor(None, Some("string"), None, PyDict(<< "t" >>)),
     Descriptor(None, Some("string"), Some(PyBool(FALSE)), PyDict(<< "t", "r" >>)),
     Descriptor(None, Some("int"), Some(PyBool(TRUE)), PyDict(<< "t", "r" >>)),
     Descriptor(None, Some("float"), None, PyDict(<< "t" >>)),
     Descriptor(None, Some("bool"), None, PyDict(<< "t" >>)),
     Descriptor(None, Some("list"), None, PyDict(<< "t" >>)),
     Descriptor(None, Some("dict"), None, PyDict(<< "t" >>)),
     Descriptor(None, Some("String"), None, PyDict(<< "t" >>)),
     Descriptor(None, Some(NotAString), None, PyDict(<< "t" >>)),
     Descriptor(None, None, Some(PyInt(<< "0" >>)), PyDict(<< "r" >>)),
     Descriptor(None, None, None, PyDict(<< >>))}

\* the requirements declared for the second key: a plain value, a typed
\* descriptor, a typed descriptor that is required
ReqTemplatesFor(i) ==
    IF i = 1 THEN ReqTemplates
    ELSE {Literal(PyStr(<< "v" >>)),
          Descriptor(None, Some("string"), None, PyDict(<< "t" >>)),
          Descriptor(None, Some("int"), Some(PyBool(TRUE)), PyDict(<< "t", "r" >>))}

\* the config_requirements over the keys from the i-th on, at most n of them
RECURSIVE Requirements(_, _)
Requirements(i, n) ==
    IF i > Len(ReqKeys) \/ n = 0 THEN {<< >>}
    ELSE Requirements(i + 1, n)
            \cup {<< Item(ReqKeys[i], t) >> \o r :
                     t \in ReqTemplatesFor(i), r \in Requirements(i + 1, n - 1)}

\* the values an operator may have put in config.json, as their texts
StoredValues ==
    {JsonDumps(v) : v \in {PyStr(<< >>), PyStr(<< "v" >>), PyInt(<< "0" >>), PyBool(FALSE),
                           PyList(<< >>), PyDict(<< >>), PyNone}}

\* the extension's section of config.json over the keys from the i-th on, at
\* most n of them
RECURSIVE StoredItems(_, _)
StoredItems(i, n) ==
    IF i > Len(ReqKeys) \/ n = 0 THEN {<< >>}
    ELSE StoredItems(i + 1, n)
            \cup {<< Item(JsonDumpsKey(ReqKeys[i]), v) >> \o r :
                     v \in StoredValues, r \in StoredItems(i + 1, n - 1)}

\* config.json before the manager is constructed: a file that is no JSON may
\* still hold what was written to it
ConfigFiles ==
    {ConfigFile(k, << >>) : k \in {"missing", "empty", "malformed", "json"}}
        \cup {ConfigFile(k, << OtherEntry >>) : k \in {"malformed", "json"}}
        \cup {ConfigFile("json", << OtherEntry,
                                    Item(JsonDumpsKey(ExtensionName), NullSection) >>)}
        \cup {ConfigFile("json", << OtherEntry,
                                    Item(JsonDumpsKey(ExtensionName), Section(items)) >>) :
                 items \in StoredItems(1, MaxStoredKeys)}

InitConfig ==
    /\ api_key = None
    /\ debug = FALSE
    /\ x_api_key = None
    /\ auth_result = None
    /\ fs = (ToolsDir :> Dir(TRUE, << >>)) @@ (ExtensionDir :> Dir(FALSE, << >>))
    /\ tools_dirs = << ToolsDir >>
    /\ pc = "serving"
    /\ tools = << >>
    /\ routes = << >>
    /\ log = << >>
    /\ request = None
    /\ response = None
    /\ calls = << >>
    /\ NoBrowser
    /\ \E file \in ConfigFiles : config_json = EnsureConfigFile(file)
    /\ extension_yaml \in {ExtensionYaml(FALSE, << >>)}
                             \cup {ExtensionYaml(TRUE, r) : r \in Requirements(1, MaxReqKeys)}
    /\ config_call = None
    /\ config_threads = << >>

\* the section an extension has in config.json as it stands
StoredSection(file, extension_name) ==
    LET central == LoadConfig(file) IN
    IF PyHas(central, extension_name) THEN PyGet(central, extension_name)
    ELSE Section(<< >>)

\* the keys a call added to the section and saved
Created(file, res) ==
    IF ~res.saved THEN {}
    ELSE {k \in {ReqKeys[i] : i \in 1..Len(ReqKeys)} :
             /\ PyHas(res.section.items, k)
             /\ ~PyHas(StoredSection(file, ExtensionName).items, k)}

\* the call made last: its arguments, what it did, the file it found, the
\* keys auto-create has added so far, and whether the call before it was a
\* get_extension_config(name, auto_create=True) that returned
ConfigCall(op, auto_create, key, default, res, again) ==
    [op |-> op, auto_create |-> auto_create, key |-> key, default |-> default,
     raised |-> res.raised, saved |-> res.saved, section |-> res.section,
     value |-> res.value, valid |-> res.valid, missing |-> res.missing,
     before |-> config_json,
     created |-> (IF config_call = None THEN {} ELSE config_call[1].created)
                     \cup Created(config_json, res),
     again |-> again]

AfterAutoCreate ==
    /\ config_call # None
    /\ config_call[1].op = "get_extension_config"
    /\ config_call[1].auto_create
    /\ config_call[1].raised = ""

\* manager.get_extension_config(name, auto_create)
CallGetExtensionConfig ==
    /\ \E auto_create \in BOOLEAN :
          LET res == GetExtensionConfig(config_json, extension_yaml, ExtensionName,
                                        auto_create)
          IN  /\ config_json' = res.file
              /\ config_call' = Some(ConfigCall("get_extension_config", auto_create,
                                                PyNone, PyNone, res, AfterAutoCreate))
    /\ UNCHANGED << envVars, browserVars, authVars, serverVars, requestVars, extension_yaml, config_threads >>

\* manager.get_config_value(name, key, default)
CallGetConfigValue ==
    /\ \E k \in 1..Len(ReqKeys), default \in {PyNone, PyStr(<< "d" >>)} :
          LET res == GetConfigValue(config_json, extension_yaml, ExtensionName,
                                    ReqKeys[k], default)
          IN  /\ config_json' = res.file
              /\ config_call' = Some(ConfigCall("get_config_value", TRUE,
                                                ReqKeys[k], default, res, FALSE))
    /\ UNCHANGED << envVars, browserVars, authVars, serverVars, requestVars, extension_yaml, config_threads >>

\* manager.validate_extension_config(name)
CallValidateExtensionConfig ==
    /\ LET res == ValidateExtensionConfig(config_json, extension_yaml, ExtensionName)
       IN  /\ config_json' = res.file
           /\ config_call' = Some(ConfigCall("validate_extension_config", FALSE,
                                             PyNone, PyNone, res, FALSE))
    /\ UNCHANGED << envVars, browserVars, authVars, serverVars, requestVars, extension_yaml, config_threads >>

\* config.json is deleted under the running manager
RemoveConfigFile ==
    /\ config_json.kind # "missing"
    /\ config_json' = ConfigFile("missing", << >>)
    /\ config_call' = None
    /\ UNCHANGED << envVars, browserVars, authVars, serverVars, requestVars, extension_yaml, config_threads >>

NextConfig ==
    \/ CallGetExtensionConfig
    \/ CallGetConfigValue
    \/ CallValidateExtensionConfig
    \/ RemoveConfigFile

SpecConfig == InitConfig /\ [][NextConfig]_vars

(***************************************************************************)
(* get_extension_config(name, auto_create=True) called from two threads    *)
(* for two extensions: the manager holds no lock, so the steps of one call *)
(* interleave with the steps of the other.                                 *)
(***************************************************************************)
\* the extensions the two threads call for
Callers == << ExtensionName, OtherName >>

\* a call under way: the extension, its config.yaml, where the call stands,
\* the thread's central_config, the exception raised ("": none) and the
\* mapping returned
Thread(extension_name, yaml, at, central_config, raised, section) ==
    [extension_name |-> extension_name, yaml |-> yaml, pc |-> at,
     central_config |-> central_config, raised |-> raised, section |-> section]

\* the config.yaml of a caller: none, or one requirement
CallerYamls ==
    {ExtensionYaml(FALSE, << >>),
     ExtensionYaml(TRUE, << Item(ReqKeys[1], Literal(PyStr(<< "v" >>))) >>),
     ExtensionYaml(TRUE, << Item(ReqKeys[2],
                                 Descriptor(None, Some("int"), None, PyDict(<< "t" >>))) >>)}

\* config.json as the two calls find it
CallerFiles ==
    {ConfigFile("empty", << >>), ConfigFile("malformed", << >>), ConfigFile("json", << >>),
     ConfigFile("json", << Item(JsonDumpsKey(ExtensionName),
                                Section(<< Item(JsonDumpsKey(ReqKeys[1]),
                                                JsonDumps(PyStr(<< "w" >>))) >>)) >>),
     ConfigFile("json", << Item(JsonDumpsKey(OtherName), NullSection) >>)}

InitThreads ==
    /\ api_key = None
    /\ debug = FALSE
    /\ x_api_key = None
    /\ auth_result = None
    /\ fs = (ToolsDir :> Dir(TRUE, << >>)) @@ (ExtensionDir :> Dir(FALSE, << >>))
    /\ tools_dirs = << ToolsDir >>
    /\ pc = "serving"
    /\ tools = << >>
    /\ routes = << >>
    /\ log = << >>
    /\ request = None
    /\ response = None
    /\ calls = << >>
    /\ NoBrowser
    /\ config_json \in CallerFiles
    /\ extension_yaml = ExtensionYaml(FALSE, << >>)
    /\ config_call = None
    /\ \E y1 \in CallerYamls, y2 \in CallerYamls :
          config_threads = << Thread(Callers[1], y1, "load", << >>, "", Section(<< >>)),
                              Thread(Callers[2], y2, "load", << >>, "", Section(<< >>)) >>

\* the thread reads config.json and merges the requirements into what it
\* read; a merge that changed something is to be saved
LoadAndMerge(t) ==
    /\ config_threads[t].pc = "load"
    /\ LET th == config_threads[t]
           reqs == ConfigRequirements(th.yaml)
           central == LoadConfig(config_json)
           m == IF reqs # << >> THEN MergeConfigRequirements(central, th.extension_name, reqs)
                ELSE MergeResult(central, FALSE, "")
           section == IF PyHas(m.config, th.extension_name)
                      THEN PyGet(m.config, th.extension_name) ELSE Section(<< >>)
       IN  config_threads' =
               [config_threads EXCEPT ![t] =
                   Thread(th.extension_name, th.yaml,
                          IF m.raised = "" /\ m.was_modified THEN "open" ELSE "done",
                          m.config, m.raised, section)]
    /\ UNCHANGED << envVars, browserVars, authVars, serverVars, requestVars, config_json, extension_yaml,
                    config_call >>

\* _save_config opens config.json for writing, which empties it
OpenForWriting(t) ==
    /\ config_threads[t].pc = "open"
    /\ config_json' = ConfigFile("empty", << >>)
    /\ config_threads' = [config_threads EXCEPT ![t].pc = "dump"]
    /\ UNCHANGED << envVars, browserVars, authVars, serverVars, requestVars, extension_yaml, config_call >>

\* what json.dump leaves in the file: the thread's text, or, written over
\* the text another thread wrote meanwhile, something that is no JSON
DumpOutcomes(file, central_config) ==
    IF file.kind = "empty" THEN {SaveConfig(central_config)}
    ELSE {SaveConfig(central_config), ConfigFile("malformed", << >>)}

\* _save_config writes the thread's central_config and the call returns
Dump(t) ==
    /\ config_threads[t].pc = "dump"
    /\ config_json' \in DumpOutcomes(config_json, config_threads[t].central_config)
    /\ config_threads' = [config_threads EXCEPT ![t].pc = "done"]
    /\ UNCHANGED << envVars, browserVars, authVars, serverVars, requestVars, extension_yaml, config_call >>

NextThreads ==
    \E t \in 1..Len(Callers) : LoadAndMerge(t) \/ OpenForWriting(t) \/ Dump(t)

SpecThreads == InitThreads /\ [][NextThreads]_vars

(***************************************************************************)
(* The browser operations that call_tool hands to a worker thread:         *)
(* XiaohongshuTool._publish_xiaohongshu and get_douyin_cookies.  Each      *)
(* call into the browser library either succeeds or raises.                *)
(***************************************************************************)
MaxImages == 3

Publish == "_publish_xiaohongshu"

GetCookies == "get_douyin_cookies"

BrowserOp(name, images) == [name |-> name, images |-> images]

\* how the function ended: the value it returned, or the exception raised
Ended(raised, value) == [raised |-> raised, value |-> value]

InitBrowser ==
    /\ api_key = None
    /\ debug = FALSE
    /\ x_api_key = None
    /\ auth_result = None
    /\ fs = (ToolsDir :> Dir(TRUE, << >>)) @@ (ExtensionDir :> Dir(FALSE, << >>))
    /\ tools_dirs = << ToolsDir >>
    /\ pc = "serving"
    /\ tools = << >>
    /\ routes = << >>
    /\ log = << >>
    /\ request = None
    /\ response = None
    /\ calls = << >>
    /\ NoBrowser
    /\ NoConfig

\* asyncio.to_thread(self._publish_xiaohongshu, ...) with the decoded images
\* (call_tool has refused an empty list), or
\* loop.run_in_executor(executor, get_douyin_cookies); sync_playwright() is
\* entered
Offload ==
    /\ op_step = "idle"
    /\ \E op \in {BrowserOp(Publish, n) : n \in 1..MaxImages} \cup {BrowserOp(GetCookies, 0)} :
          browser_op' = Some(op)
    /\ op_step' = "launch"
    /\ UNCHANGED << envVars, configVars, authVars, serverVars, requestVars,
                    browser, temp_files, tmp_dir, op_outcome >>

\* browser = p.chromium.launch(...)
Launch ==
    /\ op_step = "launch"
    /\ \E ok \in BOOLEAN :
          /\ browser' = IF ok THEN "open" ELSE browser
          /\ op_step' = IF ok THEN "new_context" ELSE "exit"
          /\ op_outcome' = IF ok THEN op_outcome ELSE Some(Ended("Error", ""))
    /\ UNCHANGED << envVars, configVars, authVars, serverVars, requestVars,
                    browser_op, temp_files, tmp_dir >>

\* context = browser.new_context(...), outside any try
NewContext ==
    /\ op_step = "new_context"
    /\ \E ok \in BOOLEAN :
          /\ op_step' = IF ~ok THEN "exit"
                        ELSE IF browser_op[1].name = Publish THEN "add_cookies"
                        ELSE "new_page"
          /\ op_outcome' = IF ok THEN op_outcome ELSE Some(Ended("Error", ""))
    /\ UNCHANGED << envVars, configVars, authVars, serverVars, requestVars,
                    browser_op, browser, temp_files, tmp_dir >>

\* json.loads(cookies_json) and context.add_cookies(cookies): a failure
\* returns from the function there and then
AddCookies ==
    /\ op_step = "add_cookies"
    /\ \E ok \in BOOLEAN :
          /\ op_step' = IF ok THEN "new_page" ELSE "exit"
          /\ op_outcome' = IF ok THEN op_outcome
                           ELSE Some(Ended("", "Failed: Invalid cookies format"))
    /\ UNCHANGED << envVars, configVars, authVars, serverVars, requestVars,
                    browser_op, browser, temp_files, tmp_dir >>

\* page = context.new_page() (and context.add_init_script in
\* get_douyin_cookies), still outside the try
NewPage ==
    /\ op_step = "new_page"
    /\ \E ok \in BOOLEAN :
          /\ op_step' = IF ok THEN "goto" ELSE "exit"
          /\ op_outcome' = IF ok THEN op_outcome ELSE Some(Ended("Error", ""))
    /\ UNCHANGED << envVars, configVars, authVars, serverVars, requestVars,
                    browser_op, browser, temp_files, tmp_dir >>

\* what the except clause of the function returns
Caught(name) ==
    IF name = Publish THEN Ended("", "Failed: Publishing error") ELSE Ended("", "None")

\* inside the try: page.goto(...) and the waits for the page to load
Goto ==
    /\ op_step = "goto"
    /\ \E ok \in BOOLEAN :
          /\ op_step' = IF ~ok THEN "finally"
                        ELSE IF browser_op[1].name = Publish THEN "check_url"
                        ELSE "check_login"
          /\ op_outcome' = IF ok THEN op_outcome ELSE Some(Caught(browser_op[1].name))
    /\ UNCHANGED << envVars, configVars, authVars, serverVars, requestVars,
                    browser_op, browser, temp_files, tmp_dir >>

\* if "publish" not in page.url: return ...; otherwise temp_files = []
CheckUrl ==
    /\ op_step = "check_url"
    /\ \E on_publish_page \in BOOLEAN :
          /\ op_step' = IF on_publish_page THEN "save_images" ELSE "finally"
          /\ temp_files' = IF on_publish_page THEN Some(<< >>) ELSE temp_files
          /\ op_outcome' = IF on_publish_page THEN op_outcome
                           ELSE Some(Ended("", "Failed: Could not access publish page"))
    /\ UNCHANGED << envVars, configVars, authVars, serverVars, requestVars,
                    browser_op, browser, tmp_dir >>

\* one round of the loop over the images: NamedTemporaryFile(delete=False)
\* creates the file, and its name is appended once the bytes are written
SaveImage ==
    /\ op_step = "save_images"
    /\ Len(temp_files[1]) < browser_op[1].images
    /\ LET i == Len(temp_files[1]) + 1 IN
          /\ tmp_dir' = tmp_dir \cup {i}
          /\ \E written \in BOOLEAN :
                /\ temp_files' = IF written THEN Some(Append(temp_files[1], i)) ELSE temp_files
                /\ op_step' = IF written THEN "save_images" ELSE "finally"
                /\ op_outcome' = IF written THEN op_outcome ELSE Some(Caught(Publish))
    /\ UNCHANGED << envVars, configVars, authVars, serverVars, requestVars,
                    browser_op, browser >>

\* the rest of the try: upload, title, content, tags, the publish button
PublishResults ==
    {Ended("", "Success: Content published to Xiaohongshu"),
     Ended("", "Failed: Publish button not found"),
     Caught(Publish)}

UploadAndPublish ==
    /\ op_step = "save_images"
    /\ Len(temp_files[1]) = browser_op[1].images
    /\ \E result \in PublishResults : op_outcome' = Some(result)
    /\ op_step' = "finally"
    /\ UNCHANGED << envVars, configVars, authVars, serverVars, requestVars,
                    browser_op, browser, temp_files, tmp_dir >>

\* get_douyin_cookies: logged in already (the cookies are returned), not
\* yet (the function polls), or an exception (None is returned)
LoginResults == {Ended("", "cookies"), Caught(GetCookies)}

CheckLogin ==
    /\ op_step = "check_login"
    /\ \E logged_in \in BOOLEAN :
          IF logged_in
          THEN /\ \E result \in LoginResults : op_outcome' = Some(result)
               /\ op_step' = "finally"
          ELSE /\ op_outcome' = op_outcome
               /\ op_step' = "wait_login"
    /\ UNCHANGED << envVars, configVars, authVars, serverVars, requestVars,
                    browser_op, browser, temp_files, tmp_dir >>

\* while True: ... time.sleep(5), left when the user has logged in or by
\* an exception
WaitLogin ==
    /\ op_step = "wait_login"
    /\ \E result \in LoginResults : op_outcome' = Some(result)
    /\ op_step' = "finally"
    /\ UNCHANGED << envVars, configVars, authVars, serverVars, requestVars,
                    browser_op, browser, temp_files, tmp_dir >>

\* the files os.remove is called for
Removed(files) == {files[i] : i \in 1..Len(files)}

\* the finally clause.  _publish_xiaohongshu: for temp_file in temp_files
\* (a local that is unbound when the try was left before temp_files = []),
\* then browser.close(); get_douyin_cookies: browser.close()
Finally ==
    /\ op_step = "finally"
    /\ IF browser_op[1].name = Publish /\ temp_files = None
       THEN /\ op_outcome' = Some(Ended("UnboundLocalError", ""))
            /\ UNCHANGED << browser, tmp_dir >>
       ELSE /\ tmp_dir' = IF temp_files = None THEN tmp_dir
                          ELSE tmp_dir \ Removed(temp_files[1])
            /\ browser' = "closed"
            /\ UNCHANGED op_outcome
    /\ op_step' = "exit"
    /\ UNCHANGED << envVars, configVars, authVars, serverVars, requestVars,
                    browser_op, temp_files >>

\* the with sync_playwright() block is left: the driver is stopped, and a
\* browser still open goes down with it; the function has ended
Exit ==
    /\ op_step = "exit"
    /\ browser' = IF browser = "open" THEN "stopped" ELSE browser
    /\ op_step' = "done"
    /\ UNCHANGED << envVars, configVars, authVars, serverVars, requestVars,
                    browser_op, temp_files, tmp_dir, op_outcome >>

NextBrowser ==
    \/ Offload
    \/ Launch
    \/ NewContext
    \/ AddCookies
    \/ NewPage
    \/ Goto
    \/ CheckUrl
    \/ SaveImage
    \/ UploadAndPublish
    \/ CheckLogin
    \/ WaitLogin
    \/ Finally
    \/ Exit

SpecBrowser == InitBrowser /\ [][NextBrowser]_vars

(***************************************************************************)
(* What the properties speak of.                                           *)
(***************************************************************************)
Started == pc \in {"mount", "serving"}

\* the directory entries of the listed roots, as <<root, position>>
Slots == UNION {{<< tools_dirs[r], i >> : i \in 1..Len(fs[tools_dirs[r]].entries)}
                : r \in 1..Len(tools_dirs)}

EntryAt(s) == fs[s[1]].entries[s[2]]

InstanceAt(s) == Instance(s[1], EntryAt(s).name)

PackageSlots == {s \in Slots : EntryAt(s).kind = "package"}

Registered(inst) == \E i \in 1..Len(tools) : tools[i].inst = inst

LogCount(level, code, msg, tool, dir) ==
    Cardinality({i \in 1..Len(log) : log[i] = LogRecord(level, code, msg, tool, dir)})

ErrorCount(code, tool, dir) ==
    Cardinality({i \in 1..Len(log) :
                    /\ log[i].level = "ERROR" /\ log[i].code = code
                    /\ log[i].tool = tool /\ log[i].dir = dir})

RegistrationsLogged(name) ==
    LogCount("INFO", "", "discovered and registered successfully", name, "")

\* a route configuration lacks a non-empty 'endpoint' or lacks 'params_class'
Lacking(cfg) ==
    cfg.isdict /\ (cfg.endpoint = None \/ cfg.endpoint = Some("") \/ cfg.params_class = "None")

\* a complete form route over a class without model_fields: no handler can
\* be built for it
Unbuildable(cfg) ==
    cfg.isdict /\ ~Lacking(cfg) /\ cfg.use_form /\ cfg.params_class = "NoModelFields"

\* the position at which registering the routes of a declaration raises
\* (one past the end: it does not)
StopsAt(decl) ==
    IF decl.kind = "raises" THEN 0
    ELSE IF \E i \in 1..Len(decl.value) : Unbuildable(decl.value[i])
    THEN CHOOSE i \in 1..Len(decl.value) :
            /\ Unbuildable(decl.value[i])
            /\ \A j \in 1..(i - 1) : ~Unbuildable(decl.value[j])
    ELSE Len(decl.value) + 1

\* a package that imports, instantiates and registers its routes
LoadsCleanly(e) == e.load = "ok" /\ StopsAt(e.decl) = Len(e.decl.value) + 1

(***************************************************************************)
(* Properties.                                                             *)
(***************************************************************************)
\* C1: whenever a plugin's call_tool raises during a request to a synthesized
\* endpoint, the response body is {success: false, data: null, error:
\* <message>} and the exception does not reach the global error handlers.
C1_CallToolFailureEnveloped ==
    (/\ request # None
     /\ request[1].method = "POST"
     /\ calls # << >>
     /\ calls[1].raised # None)
        => response = Some(Response(200, [success |-> FALSE, data |-> None,
                                          error |-> calls[1].raised[1].msg]))

\* C2: a request to a synthesized endpoint or to GET /tools whose X-API-Key
\* (missing counting as empty) authenticate rejects is answered 401 with
\* detail "Invalid API key", and neither call_tool nor list_tools is called.
C2_RejectedKeyIsUnauthorized ==
    (request # None /\ auth_result = Some(Returned(FALSE)))
        => /\ response = Some(Response(401, [detail |-> "Invalid API key"]))
           /\ calls = << >>

C2_Witness ==
    /\ request # None
    /\ request[1].method = "POST"
    /\ request[1].header = Some(WrongKey)
    /\ request[1].body_ok
    /\ auth_result = Some(Returned(FALSE))
    /\ response = Some(Response(401, [detail |-> "Invalid API key"]))
    /\ calls = << >>

Configured == api_key # None /\ api_key # Some(<< >>)

\* C3: with a configured secret, authenticate called with exactly the secret
\* returns true, whatever the secret (short ones included).
C3_ExactSecretAccepted ==
    (Configured /\ auth_result # None /\ x_api_key = api_key)
        => auth_result = Some(Returned(TRUE))

\* C4: with a configured secret s, authenticate(v) returns false for every
\* presented v that is not exactly s (a proper prefix or suffix of s, the
\* empty string, s with characters added).
C4_OtherValueRejected ==
    (Configured /\ auth_result # None /\ x_api_key # api_key)
        => auth_result = Some(Returned(FALSE))

\* C5: with no configured secret (unset or empty), authenticate returns true
\* for every presented value, the empty one included.
C5_NoSecretAcceptsAll ==
    (~Configured /\ auth_result # None) => auth_result = Some(Returned(TRUE))

C5_Witness ==
    /\ api_key = Some(<< >>)
    /\ x_api_key = Some(<< >>)
    /\ auth_result = Some(Returned(TRUE))

\* C6: a plugin that fails to load (tool file missing, import error, class
\* absent, class no BaseMCPTool, constructor exception) is caught at its own
\* boundary (one ToolLoadError logged for it), is absent from the registry,
\* and every other package of every root is still attempted: the ones that
\* load cleanly log no error and are each logged as registered.
C6_LoadFailureIsolated ==
    Started =>
        /\ \A s \in PackageSlots :
              /\ EntryAt(s).load # "ok"
                    => /\ ~Registered(InstanceAt(s))
                       /\ ErrorCount("ToolLoadError", EntryAt(s).name, s[1]) = 1
              /\ LoadsCleanly(EntryAt(s))
                    => ErrorCount("ToolLoadError", EntryAt(s).name, s[1]) = 0
        /\ \A n \in Names :
              RegistrationsLogged(n)
                  = Cardinality({s \in PackageSlots :
                                    EntryAt(s).name = n /\ LoadsCleanly(EntryAt(s))})

C6_Witness ==
    /\ Started
    /\ Len(fs[ToolsDir].entries) = 2
    /\ EntryAt(<< ToolsDir, 1 >>).kind = "package"
    /\ EntryAt(<< ToolsDir, 1 >>).load = "ctor_raises"
    /\ EntryAt(<< ToolsDir, 2 >>).kind = "package"
    /\ LoadsCleanly(EntryAt(<< ToolsDir, 2 >>))
    /\ Registered(InstanceAt(<< ToolsDir, 2 >>))
    /\ Len(tools_dirs) = 2
    /\ Len(fs[ExtensionDir].entries) = 1
    /\ EntryAt(<< ExtensionDir, 1 >>).kind = "package"
    /\ EntryAt(<< ExtensionDir, 1 >>).name = EntryAt(<< ToolsDir, 1 >>).name
    /\ LoadsCleanly(EntryAt(<< ExtensionDir, 1 >>))
    /\ Registered(InstanceAt(<< ExtensionDir, 1 >>))

\* C7: when the built-in root and the extension root each hold a plugin
\* package of the same name, the registry entry of that name is the instance
\* of the built-in root, and the extension root's plugin adds no route.
C7_FirstRootWins ==
    Started =>
        \A s \in PackageSlots, t \in PackageSlots :
            (/\ s[1] = ToolsDir /\ t[1] = ExtensionDir
             /\ EntryAt(s).name = EntryAt(t).name
             /\ LoadsCleanly(EntryAt(s)))
                => /\ DictGet(tools, EntryAt(s).name) = InstanceAt(s)
                   /\ \A i \in 1..Len(routes) : routes[i].inst # InstanceAt(t)

\* C8: a plugin whose constructor raises is never in the registry, has no
\* entry in the output of GET /tools, and GET /health answers
\* {status: "healthy"} once the server serves.
C8_ConstructorFailureAbsent ==
    /\ \A s \in PackageSlots :
          EntryAt(s).load = "ctor_raises"
              => /\ ~Registered(InstanceAt(s))
                 /\ (request # None /\ request[1].path = "/tools"
                        /\ response[1].status = 200)
                       => \A i \in 1..Len(response[1].body.tools) :
                             response[1].body.tools[i].description # s[1]
                                \/ ~HasTool(InstanceAt(s), response[1].body.tools[i].name)
    /\ (request # None /\ request[1].path = "/health")
          => response = Some(Response(200, [status |-> "healthy"]))

C8_Witness ==
    /\ pc = "serving"
    /\ \E s \in PackageSlots : EntryAt(s).load = "ctor_raises"
    /\ \E s \in PackageSlots : Registered(InstanceAt(s))
    /\ request # None
    /\ request[1].path = "/tools"
    /\ response[1].status = 200
    /\ Len(response[1].body.tools) = 1

\* C9: an installer run that exceeds the timeout, or exits non-zero, is
\* logged as one DependencyInstallError of that plugin and of no other;
\* installation goes on to the other packages, and every package that loads
\* cleanly is still loaded by discovery: its complete routes are mounted.
C9_InstallFailureIsolated ==
    /\ pc # "install" =>
          /\ \A s \in PackageSlots :
                /\ LogCount("ERROR", "DependencyInstallError",
                            "Package installation timed out", EntryAt(s).name, s[1])
                      = (IF EntryAt(s).pip = "timeout" THEN 1 ELSE 0)
                /\ LogCount("ERROR", "DependencyInstallError",
                            "Failed to install packages", EntryAt(s).name, s[1])
                      = (IF EntryAt(s).pip = "nonzero" THEN 1 ELSE 0)
          /\ \A i \in 1..Len(log) :
                log[i].code = "DependencyInstallError"
                    => \E s \in PackageSlots :
                          /\ s[1] = log[i].dir /\ EntryAt(s).name = log[i].tool
                          /\ EntryAt(s).pip \in {"timeout", "nonzero", "bad_name"}
    /\ Started =>
          \A s \in PackageSlots :
              LoadsCleanly(EntryAt(s))
                  => \A k \in 1..Len(EntryAt(s).decl.value) :
                        (EntryAt(s).decl.value[k].isdict /\ ~Lacking(EntryAt(s).decl.value[k]))
                            => \E j \in 1..Len(routes) :
                                  /\ routes[j].inst = InstanceAt(s)
                                  /\ routes[j].path = EntryAt(s).decl.value[k].endpoint[1]

C9_Witness ==
    /\ Started
    /\ Len(fs[ToolsDir].entries) = 2
    /\ EntryAt(<< ToolsDir, 1 >>).kind = "package"
    /\ EntryAt(<< ToolsDir, 1 >>).pip = "timeout"
    /\ EntryAt(<< ToolsDir, 2 >>).kind = "package"
    /\ EntryAt(<< ToolsDir, 2 >>).pip = "nonzero"
    /\ Len(tools_dirs) = 2
    /\ Len(fs[ExtensionDir].entries) = 1
    /\ EntryAt(<< ExtensionDir, 1 >>).kind = "package"
    /\ EntryAt(<< ExtensionDir, 1 >>).pip = "ok"
    /\ LoadsCleanly(EntryAt(<< ExtensionDir, 1 >>))
    /\ Registered(InstanceAt(<< ExtensionDir, 1 >>))
    /\ ErrorCount("DependencyInstallError", EntryAt(<< ToolsDir, 1 >>).name, ToolsDir) = 1
    /\ ErrorCount("DependencyInstallError", EntryAt(<< ToolsDir, 2 >>).name, ToolsDir) = 1

\* the route declaration of the one plugin of the route specification
TheDecl == EntryAt(<< ToolsDir, 1 >>).decl

\* the configurations register_tool_routes gets to before it returns or raises
Processed == 1..(IF StopsAt(TheDecl) > Len(TheDecl.value) THEN Len(TheDecl.value)
                 ELSE StopsAt(TheDecl) - 1)

\* C10: for every route configuration that lacks a non-empty 'endpoint' or
\* lacks 'params_class', register_tool_routes registers no route, logs
\* exactly one error and does not raise, and the plugin's other
\* configurations are still processed: each complete one is mounted.
C10_IncompleteRouteSkipped ==
    (Started /\ TheDecl.kind \in {"list", "dict"}) =>
        /\ LogCount("ERROR", "", "Route config missing 'endpoint' or 'params_class'",
                    "echo", "")
              = Cardinality({k \in Processed : Lacking(TheDecl.value[k])})
        /\ Len(routes)
              = Cardinality({k \in Processed :
                                TheDecl.value[k].isdict /\ ~Lacking(TheDecl.value[k])})
        /\ \A k \in Processed :
              (TheDecl.value[k].isdict /\ ~Lacking(TheDecl.value[k]))
                  => \E j \in 1..Len(routes) :
                        routes[j] = Route(TheDecl.value[k].endpoint[1],
                                          Instance(ToolsDir, "echo"),
                                          IF TheDecl.value[k].tool_name = None THEN "echo"
                                          ELSE TheDecl.value[k].tool_name[1],
                                          TheDecl.value[k].use_form)
        /\ StopsAt(TheDecl) > Len(TheDecl.value)
              => /\ ErrorCount("ToolLoadError", "echo", ToolsDir) = 0
                 /\ RegistrationsLogged("echo") = 1

C10_Witness ==
    /\ Started
    /\ TheDecl = ReturnsList(<< RouteConfig(TRUE, Some("/x"), "None", FALSE, None),
                                JsonRoute("/y") >>)
    /\ routes = << Route("/y", Instance(ToolsDir, "echo"), "echo", FALSE) >>
    /\ LogCount("ERROR", "", "Route config missing 'endpoint' or 'params_class'",
                "echo", "") = 1
    /\ RegistrationsLogged("echo") = 1

(***************************************************************************)
(* Properties of the configuration manager.                                *)
(***************************************************************************)
LastCall == config_call[1]

Declared(key) == PyHas(ConfigRequirements(extension_yaml), key)

DescriptorOf(key) == PyGet(ConfigRequirements(extension_yaml), key)

\* the key under which config.json holds the value of a declared key
PersistedKey(key) == JsonLoads(JsonDumpsKey(key))

\* C11: a get_extension_config(name, auto_create=True) that directly follows
\* one that returned, with the same config_requirements, does not call
\* _save_config and leaves config.json as it was.
C11_SecondCallDoesNotSave ==
    (/\ config_call # None
     /\ LastCall.op = "get_extension_config"
     /\ LastCall.auto_create
     /\ LastCall.again)
        => (~LastCall.saved /\ config_json = LastCall.before)

\* the zero-values of the table of the claim
C12_ZeroValue(type) ==
    IF type = "string" THEN PyStr(<< >>)
    ELSE IF type = "int" THEN PyInt(<< "0" >>)
    ELSE IF type = "float" THEN PyFloat(<< "0", ".", "0" >>)
    ELSE IF type = "bool" THEN PyBool(FALSE)
    ELSE IF type = "list" THEN PyList(<< >>)
    ELSE PyDict(<< >>)

\* the last call read a key that auto-create added from a descriptor with a
\* type of the table and no default
ReadsCreatedTypedKey ==
    /\ config_call # None
    /\ LastCall.op = "get_config_value"
    /\ LastCall.raised = ""
    /\ LastCall.key \in LastCall.created
    /\ DescriptorOf(LastCall.key).isdict
    /\ DescriptorOf(LastCall.key).default = None
    /\ DescriptorOf(LastCall.key).type # None
    /\ DescriptorOf(LastCall.key).type[1] \in {"string", "int", "float", "bool", "list", "dict"}

\* C12: get_config_value of a key that auto-create added from a descriptor
\* with a type and no default returns the zero-value of that type, whatever
\* the default the caller passes.
C12_CreatedKeyReadsZeroValue ==
    ReadsCreatedTypedKey
        => LastCall.value = C12_ZeroValue(DescriptorOf(LastCall.key).type[1])

\* a float key added by an earlier call is read with a default of "d"
C12_Witness ==
    /\ ReadsCreatedTypedKey
    /\ DescriptorOf(LastCall.key).type[1] = "float"
    /\ LastCall.default = PyStr(<< "d" >>)
    /\ ~LastCall.saved
    /\ LastCall.value = PyFloat(<< "0", ".", "0" >>)

\* C13: validate_extension_config leaves config.json as it found it and
\* never calls _save_config, whatever config.json and config.yaml hold.
C13_ValidateIsReadOnly ==
    (config_call # None /\ LastCall.op = "validate_extension_config")
        => (config_json = LastCall.before /\ ~LastCall.saved)

\* validation ran over a section that lacks a declared key, and the file
\* still lacks it
C13_Witness ==
    /\ config_call # None
    /\ LastCall.op = "validate_extension_config"
    /\ LastCall.raised = ""
    /\ ~LastCall.valid
    /\ \E i \in 1..Len(ReqKeys) :
          /\ Declared(ReqKeys[i])
          /\ ~PyHas(StoredSection(config_json, ExtensionName).items,
                    PersistedKey(ReqKeys[i]))

\* the declared keys the claim calls missing: the descriptor does not set
\* required to false, and the section holds no value, null, "", [] or {}
\* for the key
C14_Expected ==
    LET reqs == ConfigRequirements(extension_yaml)
        items == StoredSection(LastCall.before, ExtensionName).items
    IN  SelectSeq([i \in 1..Len(reqs) |-> reqs[i].key],
                  LAMBDA k :
                     /\ DescriptorOf(k).required # Some(PyBool(FALSE))
                     /\ \/ ~PyHas(items, PersistedKey(k))
                        \/ PyGet(items, PersistedKey(k))
                              \in {PyNone, PyStr(<< >>), PyList(<< >>), PyDict(<< >>)})

\* C14: validate_extension_config returns as missing_keys exactly the
\* declared keys whose descriptor does not set required=false and whose value
\* in the section is absent, "", [] or {}; is_valid holds exactly when that
\* list is empty.
C14_MissingKeysExact ==
    (/\ config_call # None
     /\ LastCall.op = "validate_extension_config"
     /\ LastCall.raised = "")
        => (/\ LastCall.missing = C14_Expected
            /\ LastCall.valid = (C14_Expected = << >>))

(***************************************************************************)
(* Properties of capabilities, introspection and error handling.           *)
(***************************************************************************)
\* C15: a call_tool with a name that is not among the plugin's list_tools
\* names fails with an error kind of the application's own (none of Python's
\* plain exceptions), is not answered as an unhandled internal error, and
\* returns no content.
C15_UnknownCapabilityIsDedicatedError ==
    (/\ request # None
     /\ calls # << >>
     /\ calls[1].op = "call_tool"
     /\ ~HasTool(calls[1].inst, calls[1].name))
        => /\ calls[1].raised # None
           /\ calls[1].raised[1].code \in AutomataErrors
           /\ response[1].status # 500

\* what GET /tools is to list: the capabilities of the registry's plugins
\* from the i-th on, in order, without those whose list_tools raised
RECURSIVE C16_Listed(_)
C16_Listed(i) ==
    IF i > Len(tools) THEN << >>
    ELSE (IF calls[i].raised = None THEN ListTools(tools[i].inst) ELSE << >>)
            \o C16_Listed(i + 1)

\* C16: an authenticated GET /tools calls list_tools of every plugin of the
\* registry, in registry order, and answers 200 with the {name, description}
\* of every capability of every plugin whose list_tools returned, in that
\* order; a plugin whose list_tools raises is left out and nothing else.
C16_ToolsListsEveryCapability ==
    (/\ request # None
     /\ request[1].path = "/tools"
     /\ VerifyApiKey(api_key, request[1].header) = None)
        => /\ response[1].status = 200
           /\ Len(calls) = Len(tools)
           /\ \A i \in 1..Len(tools) :
                 calls[i].op = "list_tools" /\ calls[i].inst = tools[i].inst
           /\ response[1].body.tools = C16_Listed(1)

\* the first plugin's list_tools raised and the second plugin's three
\* capabilities are listed
C16_Witness ==
    /\ request # None
    /\ request[1].path = "/tools"
    /\ Len(tools) = 2
    /\ Len(calls) = 2
    /\ calls[1].raised # None
    /\ calls[2].raised = None
    /\ response[1].status = 200
    /\ Len(response[1].body.tools) = 3

\* C17: with DEBUG off, a response made by the application's exception
\* handlers carries nothing of the exception: its body is the fixed
\* internal-server-error body (the timestamp apart).
C17_NoInternalDetailUnlessDebug ==
    (/\ request # None
     /\ ~debug
     /\ response[1].status \in {400, 500})
        => response[1].body =
              [error |-> [error_code |-> "InternalServerError",
                          message |-> "An internal server error occurred",
                          timestamp |-> None]]

\* C18: an entry of a plugin root that is no directory, or a directory
\* without __init__.py, is never installed for, imported or registered:
\* nothing is logged for it, it is not in the registry and has no route.
C18_NonPackageNeverLoaded ==
    \A s \in Slots \ PackageSlots :
        /\ ~Registered(InstanceAt(s))
        /\ \A i \in 1..Len(routes) : routes[i].inst # InstanceAt(s)
        /\ \A i \in 1..Len(log) :
              ~(log[i].tool = EntryAt(s).name /\ log[i].dir = s[1])

\* startup is over a root with a directory that lacks __init__.py, whose
\* installation would time out and whose import would fail, next to a
\* package that is registered
C18_Witness ==
    /\ Started
    /\ \E s \in Slots \ PackageSlots :
          /\ EntryAt(s).kind = "dir"
          /\ EntryAt(s).pip = "timeout"
          /\ EntryAt(s).load = "import_error"
    /\ \E s \in PackageSlots : Registered(InstanceAt(s))

\* C19: the echo plugin of the repository, found in the built-in root, is in
\* the registry once startup is over; and a call of capability 'echo' of an
\* echo plugin with {message: m} is answered with exactly one text item,
\* "Echo: " followed by m.
C19_EchoRegisteredAndEchoes ==
    /\ (/\ Started
        /\ \E i \in 1..Len(fs[ToolsDir].entries) : fs[ToolsDir].entries[i] = EchoPackage)
          => Registered(Instance(ToolsDir, "echo"))
    /\ (/\ request # None
        /\ calls # << >>
        /\ calls[1].op = "call_tool"
        /\ calls[1].inst.name = "echo"
        /\ calls[1].name = "echo")
          => response[1] = Response(200,
                 [content |-> << TextItem(EchoText(calls[1].arguments[1].message)) >>])

\* C20: a plugin for which _load_and_register_tool raised (a ToolLoadError
\* is logged for it) is not in the registry and has no route mounted.
C20_NoPartialState ==
    \A s \in PackageSlots :
        ErrorCount("ToolLoadError", EntryAt(s).name, s[1]) > 0
            => /\ ~Registered(InstanceAt(s))
               /\ \A i \in 1..Len(routes) : routes[i].inst # InstanceAt(s)

(***************************************************************************)
(* C21: when two calls of get_extension_config(auto_create=True) for two   *)
(* different extensions run concurrently and both have returned, the store *)
(* on disk holds every key either extension declares: no update is lost.   *)
(***************************************************************************)
BothReturned ==
    \A t \in 1..Len(config_threads) :
        config_threads[t].pc = "done" /\ config_threads[t].raised = ""

DeclaredKeysStored(t) ==
    LET th == config_threads[t]
        reqs == ConfigRequirements(th.yaml)
    IN  \A i \in 1..Len(reqs) :
            PyHas(StoredSection(config_json, th.extension_name).items,
                  PersistedKey(reqs[i].key))

C21_NoUpdateLost ==
    BothReturned => \A t \in 1..Len(config_threads) : DeclaredKeysStored(t)

(***************************************************************************)
(* C22: startup runs in order. No plugin is imported, registered or given  *)
(* a route before dependency installation has been attempted for every     *)
(* package of every listed root; every route belongs to a plugin that is   *)
(* in the registry; the server serves only when every package has been     *)
(* through discovery; and whatever has failed in a step, the step taken    *)
(* after it is the next one of startup.                                    *)
(***************************************************************************)
FromInstalling(r) ==
    /\ r.level = "ERROR"
    /\ r.code \in {"DependencyInstallError", "ConfigurationError"}
    /\ r.tool # ""

FromLoading(r) == r.level = "INFO" \/ r.code \in {"ToolLoadError", ""}

InstallAttempted(s) ==
    InstallToolDependencies(EntryAt(s)) # None
        => \E i \in 1..Len(log) :
              /\ log[i] = HandleException(InstallToolDependencies(EntryAt(s))[1],
                                          EntryAt(s).name, s[1])
              /\ \A j \in 1..i : ~FromLoading(log[j])

Discovered(s) ==
    \/ DictHas(tools, EntryAt(s).name)
    \/ ErrorCount("ToolLoadError", EntryAt(s).name, s[1]) >= 1

C22_Order ==
    /\ pc = "install" => (tools = << >> /\ routes = << >> /\ log = << >>)
    /\ pc = "discover" => (tools = << >> /\ routes = << >>
                              /\ \A i \in 1..Len(log) : ~FromLoading(log[i]))
    /\ pc # "install" => \A s \in PackageSlots : InstallAttempted(s)
    /\ \A i \in 1..Len(log), j \in 1..Len(log) :
          (i < j /\ FromLoading(log[i])) => ~FromInstalling(log[j])
    /\ \A i \in 1..Len(routes) : DictHas(tools, routes[i].inst.name)
    /\ Started => \A s \in PackageSlots : Discovered(s)

C22_NextStep ==
    /\ pc = "install" => pc' = "discover"
    /\ pc = "discover" => pc' = "mount"
    /\ pc = "mount" => pc' = "serving"

C22_StartupInOrder == [](C22_Order) /\ [][C22_NextStep]_vars

C22_Witness ==
    /\ pc = "serving"
    /\ \E i \in 1..Len(log), j \in 1..Len(log), k \in 1..Len(log) :
          /\ i < j /\ j < k
          /\ FromInstalling(log[i])
          /\ log[j].code = "ToolLoadError"
          /\ log[k].level = "INFO"
    /\ routes # << >>

(***************************************************************************)
(* C23: no two routes of the application have the same path: a route       *)
(* configuration whose endpoint is already taken is rejected when it is    *)
(* registered.                                                             *)
(***************************************************************************)
C23_EndpointPathsUnique ==
    \A i \in 1..Len(routes), j \in 1..Len(routes) :
        i # j => routes[i].path # routes[j].path

(***************************************************************************)
(* C24: when get_extension_config(name, auto_create=True) has returned,    *)
(* every key the extension's requirements declare is in the mapping it     *)
(* returned and in the extension's section of config.json, whatever the    *)
(* file held before (nothing, no text, no JSON, no section, some keys).    *)
(***************************************************************************)
ReturnedFromAutoCreate ==
    /\ config_call # None
    /\ LastCall.op = "get_extension_config"
    /\ LastCall.auto_create
    /\ LastCall.raised = ""

C24_DeclaredKeysExist ==
    ReturnedFromAutoCreate
        => LET reqs == ConfigRequirements(extension_yaml) IN
           \A i \in 1..Len(reqs) :
               /\ PyHas(LastCall.section.items, reqs[i].key)
               /\ PyHas(StoredSection(config_json, ExtensionName).items,
                        PersistedKey(reqs[i].key))

C24_Witness ==
    /\ ReturnedFromAutoCreate
    /\ LastCall.before.kind = "malformed"
    /\ LastCall.saved
    /\ Len(ConfigRequirements(extension_yaml)) >= 2

(***************************************************************************)
(* C25: a call of get_extension_config that finds config.json missing,     *)
(* empty or not JSON raises nothing and returns what merging the           *)
(* requirements into an empty store gives.                                 *)
(***************************************************************************)
C25_MergedIntoEmpty ==
    LET reqs == ConfigRequirements(extension_yaml) IN
    IF LastCall.auto_create /\ reqs # << >>
    THEN PyGet(MergeConfigRequirements(<< >>, ExtensionName, reqs).config, ExtensionName)
    ELSE Section(<< >>)

C25_LoadingNeverFailsCaller ==
    (/\ config_call # None
     /\ LastCall.op = "get_extension_config"
     /\ LastCall.before.kind \in {"missing", "empty", "malformed"})
        => /\ LastCall.raised = ""
           /\ LastCall.section = C25_MergedIntoEmpty

(***************************************************************************)
(* C29: a call of the manager for one extension leaves every other entry   *)
(* of config.json as it was, also when the file could not be parsed.       *)
(***************************************************************************)
NotOfExtension(entry) == entry.key # JsonDumpsKey(ExtensionName)

OtherEntries(file) == SelectSeq(file.doc, NotOfExtension)

C30_MergeOnlyAdds ==
    (/\ config_call # None
     /\ LastCall.op = "get_extension_config"
     /\ LastCall.raised = "")
        => LET old == StoredSection(LastCall.before, ExtensionName).items
               new == StoredSection(config_json, ExtensionName).items
           IN  \A i \in 1..Len(old) :
                   /\ PyHas(new, old[i].key)
                   /\ PyGet(new, old[i].key) = old[i].value

(***************************************************************************)
(* C27: the class the loader looks for is named after the directory: the   *)
(* name split at underscores, each segment capitalized, the segments       *)
(* joined, 'Tool' appended; every plugin of src/app/src defines its class  *)
(* under exactly that name, so the loader finds it.                        *)
(***************************************************************************)
C27_EntryClassFound ==
    Started =>
        \A s \in PackageSlots :
            /\ ToolClassName(ModnameChars(EntryAt(s).name)) = ClassDefined(EntryAt(s).name)
            /\ LogCount("ERROR", "ToolLoadError", "Unexpected error loading tool",
                        EntryAt(s).name, s[1])
                  <= (IF EntryAt(s).load = "ctor_raises" THEN 1 ELSE 0)

(***************************************************************************)
(* C28: every route of a plugin of src/app/src calls the plugin with a     *)
(* capability name the plugin lists and accepts (the route's tool_name,    *)
(* or the directory name), so no call made for a request to a plugin's     *)
(* endpoint names a capability the plugin does not know.                   *)
(***************************************************************************)
C28_RouteNamesAccepted ==
    /\ \A i \in 1..Len(routes) : HasTool(routes[i].inst, routes[i].tool_name)
    /\ \A i \in 1..Len(calls) :
          calls[i].op = "call_tool" => HasTool(calls[i].inst, calls[i].name)

(***************************************************************************)
(* C26                                                                     *)
(***************************************************************************)
\* the cleanup of the operation has raised
CleanupRaised == op_outcome # None /\ op_outcome[1].raised = "UnboundLocalError"

\* C26: whenever _publish_xiaohongshu or get_douyin_cookies has returned or
\* raised (invalid cookies, a navigation failure before any temporary file
\* exists, an exception during page setup, normal completion), the browser
\* it launched is open no longer, every temporary image file it created is
\* removed, and the cleanup has not raised.
C26_ResourcesReleased ==
    op_step = "done"
        => /\ browser # "open"
           /\ tmp_dir = {}
           /\ ~CleanupRaised

====
